---- MODULE Spec2Model ----
(***************************************************************************)
(* A model of the ariadne-dns resolver and nameserver core: the request    *)
(* handler of the resolver (read adapter, decode, reply), the TTL cache,   *)
(* the worker pool and the recursive lookup.                               *)
(*                                                                         *)
(* Domain names are sequences of one-character strings ("a.b." is          *)
(* <<"a", ".", "b", ".">>), so that the string operations the code uses    *)
(* (ends_with, split) are computed and not assumed.                        *)
(***************************************************************************)
EXTENDS Integers, Sequences, FiniteSets, TLC

VARIABLES
    \* ---- resolver request handler (one job of a TCP worker)
    h_pc,        \* "idle" | "received" | "done"
    h_req,       \* the bytes of the request, as a wire message
    h_read,      \* the DnsReadResult the handler obtained
    h_lookup,    \* the lookup result used by handle_query ("none" when not reached)
    h_sent,      \* the replies written to the connection
    h_panicked,  \* TRUE when the job ended by a panic
    \* ---- the cache (Cache<K, V>) and the clock
    now,         \* time::Instant::now(), in ticks
    data,        \* the map under the mutex: key -> [exp, val]
    sw_pc,       \* the sweeper thread: "sleeping" | "cleaning"
    sw_cleaned,  \* the keys the sweeper's last clean() removed
    g_pc,        \* a thread calling get_clone: "idle" | "called"
    g_key,       \* the key of its call
    g_call,      \* the time of its call
    g_ret,       \* what its last call found and returned
    zero_set,    \* per key: TRUE when the latest set on the key had ttl = 0
    \* ---- the worker pool (ThreadPool)
    p_queue,     \* the mpsc channel: the messages sent and not yet received
    p_lock,      \* the worker holding the mutex of the receiver, 0 when free
    p_poisoned,  \* TRUE when a worker panicked holding that mutex
    p_sender,    \* TRUE while the Sender of the pool exists
    p_main,      \* the owner of the pool: "running" | "joining" | "dropped" | "panicked"
    p_joined,    \* the number of workers drop has joined
    p_sent,      \* the number of jobs handed to execute
    p_done,      \* the ids of the jobs that ran to completion
    w_pc,        \* per worker: "lock" | "recv" | "run" | "exited" | "dead"
    w_job,       \* per worker: the job it received
    \* ---- the recursive lookup (Lookup), on the cache and the clock above
    lk,          \* the lookup running and, above it, its nested sub-lookups
    l_started,   \* the number of lookups started
    l_result,    \* the last lookup that returned, with its result
    l_hit,       \* the last cache hit of a lookup
    r_last,      \* the last cache hit of any thread
    o_ops,       \* the number of cache operations other workers made
    \* ---- the UDP and TCP servers and their coordinator (start_servers)
    s_pc,        \* per server thread: "bind" | "blocked" | "check" | "notify" | "exited"
    s_bound,     \* per server: TRUE while its socket is bound
    s_pending,   \* per server: datagrams / connections waiting on its socket
    stop,        \* the shared AtomicBool
    c_pc,        \* the coordinator: "wait1" | "store" | "kick_udp" | "kick_tcp" | "wait2" | "done" | "panicked"
    c_got,       \* the completion notifications the coordinator received
    tx_sent,     \* the notifications sent and not yet received
    clients,     \* the number of datagrams / connections clients sent
    \* ---- one call of a function of the crate, for the functions without state
    call_fn,     \* the function called, "none" before the call
    call_arg,    \* its arguments
    call_ret     \* what it returned

handlerVars == <<h_pc, h_req, h_read, h_lookup, h_sent, h_panicked>>

cacheVars == <<now, data, sw_pc, sw_cleaned, g_pc, g_key, g_call, g_ret, zero_set>>

poolVars == <<p_queue, p_lock, p_poisoned, p_sender, p_main, p_joined, p_sent, p_done, w_pc, w_job>>

lookupVars == <<lk, l_started, l_result, l_hit, r_last, o_ops>>

serverVars == <<s_pc, s_bound, s_pending, stop, c_pc, c_got, tx_sent, clients>>

callVars == <<call_fn, call_arg, call_ret>>

vars == <<handlerVars, cacheVars, poolVars, lookupVars, serverVars, callVars>>

\* ------------------------------------------------------------------ bounds

\* The largest question count of a generated request.
MaxQuestions == 2
\* The largest count of each record section of a generated request.
MaxRecords == 1

\* ------------------------------------------------------------------ helpers

Ok(v) == [ok |-> TRUE, val |-> v]
Err(e) == [ok |-> FALSE, err |-> e]

\* A field whose bytes are missing from the message (the buffer ended).
Cut == -1

\* Sequences over S of length at most n.
SeqUpTo(S, n) == UNION {[1..k -> S] : k \in 0..n}

\* ------------------------------------------------------------------ names

NameRoot == <<".">>
NameA == <<"a", ".">>
NameBA == <<"b", ".", "a", ".">>

\* ------------------------------------------------------------------ dns::types, dns::class

KnownTypeNums == (1..16) \cup (252..255)

RecordTypeName(n) ==
    CASE n = 1 -> "A" [] n = 2 -> "NS" [] n = 3 -> "MD" [] n = 4 -> "MF"
      [] n = 5 -> "CNAME" [] n = 6 -> "SOA" [] n = 7 -> "MB" [] n = 8 -> "MG"
      [] n = 9 -> "MR" [] n = 10 -> "NULL" [] n = 11 -> "WKS" [] n = 12 -> "PTR"
      [] n = 13 -> "HINFO" [] n = 14 -> "MINFO" [] n = 15 -> "MX" [] n = 16 -> "TXT"
      [] n = 252 -> "AXFR" [] n = 253 -> "MAILB" [] n = 254 -> "MAILA"
      [] n = 255 -> "WC"

\* RecordType::from_num
RecordTypeFromNum(n) ==
    IF n \in KnownTypeNums THEN Ok(RecordTypeName(n)) ELSE Err(n)

is_obsolete(t) == t \in {"MD", "MF", "MAILA"}
is_experimental(t) == t \in {"MB", "MG", "MR", "NULL", "MINFO"}

\* RecordType::is_supported_for_question
is_supported_for_question(t) ==
    IF is_obsolete(t) \/ is_experimental(t) THEN FALSE
    ELSE t \notin {"AXFR", "MAILB", "MAILA", "WC"}

\* RecordType::is_supported_for_records
is_supported_for_records(t) ==
    IF is_obsolete(t) \/ is_experimental(t) THEN FALSE
    ELSE t \notin {"AXFR", "MAILB", "MAILA", "WC"}

\* Class::from_num
ClassFromNum(n) ==
    CASE n = 1 -> Ok("IN") [] n = 2 -> Ok("CS") [] n = 3 -> Ok("CH")
      [] n = 4 -> Ok("HS") [] n = 255 -> Ok("WC") [] OTHER -> Err(n)

\* Class::is_supported
ClassIsSupported(c) == c = "IN"

\* ------------------------------------------------------------------ dns::header

\* OpCode::from_num
OpCodeFromNum(n) ==
    CASE n = 0 -> Ok("STD") [] n = 1 -> Ok("INV") [] n = 2 -> Ok("STS")
      [] OTHER -> Err(n)

\* OpCode::is_supported
OpCodeIsSupported(op) == op = "STD"

\* RespCode::from_num
RespCodeFromNum(n) ==
    CASE n = 0 -> Ok("NoError") [] n = 1 -> Ok("FormErr") [] n = 2 -> Ok("ServFail")
      [] n = 3 -> Ok("NxDomain") [] n = 4 -> Ok("NotImp") [] n = 5 -> Ok("Refused")
      [] OTHER -> Err(n)

\* decode_op_code
decode_op_code(n, allow_unsupported) ==
    LET r == OpCodeFromNum(n) IN
    IF ~r.ok THEN Err("UnknownOpCode")
    ELSE IF ~OpCodeIsSupported(r.val) /\ ~allow_unsupported THEN Err("UnsupportedOpCode")
    ELSE r

\* decode_resp_code
decode_resp_code(n) ==
    LET r == RespCodeFromNum(n) IN
    IF ~r.ok THEN Err("UnknownRespCode") ELSE r

\* OpCode::to_num
OpCodeToNum(op) == CASE op = "STD" -> 0 [] op = "INV" -> 1 [] op = "STS" -> 2

\* Header::decode_from_buf. The wire header w carries the twelve header bytes
\* field by field; w.complete is FALSE when the message is shorter than that.
HeaderDecodeFromBuf(w) ==
    IF ~w.complete THEN Err("BytesEnd")
    ELSE LET op == decode_op_code(w.op, TRUE)
             rc == decode_resp_code(w.rc)
         IN  IF ~op.ok THEN op
             ELSE IF ~rc.ok THEN rc
             ELSE Ok([id |-> w.id,
                      query_resp |-> (w.qr = 1),
                      op_code |-> op.val,
                      auth_answer |-> (w.aa = 1),
                      truncated |-> (w.tc = 1),
                      recursion_desired |-> (w.rd = 1),
                      recursion_available |-> (w.ra = 1),
                      z |-> w.z,
                      resp_code |-> rc.val,
                      questions_count |-> w.qd,
                      answers_count |-> w.an,
                      authorities_count |-> w.ns,
                      additionals_count |-> w.ar])

\* Header::is_supported
HeaderIsSupported(h) == decode_op_code(OpCodeToNum(h.op_code), FALSE)

\* Header::is_request
is_request(h) == h.query_resp = FALSE

\* ------------------------------------------------------------------ dns::questions, dns::records

\* decode_class (questions.rs and records.rs agree)
decode_class(n) ==
    LET r == ClassFromNum(n) IN
    IF ~r.ok THEN Err("UnknownClass")
    ELSE IF ~ClassIsSupported(r.val) THEN Err("UnsupportedClass")
    ELSE r

\* The outcome of Name::from_bytes on a wire item: the item records whether the
\* name bytes are complete and valid.
NameFromBytes(w) ==
    CASE w.name_res = "ok" -> Ok(w.node)
      [] w.name_res = "BytesEnd" -> Err("BytesEnd")
      [] OTHER -> Err("DomainNameErr")

\* decode_record_type of questions.rs: an unknown type number consumes the class.
decode_record_type_question(w) ==
    IF w.typ = Cut THEN Err("BytesEnd")
    ELSE LET r == RecordTypeFromNum(w.typ) IN
         IF r.ok
         THEN IF ~is_supported_for_question(r.val) THEN Err("UnsupportedType") ELSE r
         ELSE IF w.cls = Cut THEN Err("BytesEnd") ELSE Err("UnknownType")

\* Question::decode_from_buf after the name and the type: the class.
QuestionOfFields(w, node, t, c) ==
    IF ~node.ok THEN node
    ELSE IF ~t.ok THEN t
    ELSE IF w.cls = Cut THEN Err("BytesEnd")
    ELSE IF ~c.ok THEN c
    ELSE Ok([node |-> node.val, record_type |-> t.val, class |-> c.val])

\* Question::decode_from_buf
QuestionDecodeFromBuf(w) ==
    QuestionOfFields(w, NameFromBytes(w), decode_record_type_question(w), decode_class(w.cls))

\* decode_record_type of records.rs: an unknown type number consumes the class,
\* the ttl, the data length and the data.
decode_record_type_record(w) ==
    IF w.typ = Cut THEN Err("BytesEnd")
    ELSE LET r == RecordTypeFromNum(w.typ) IN
         IF r.ok
         THEN IF ~is_supported_for_records(r.val) THEN Err("UnsupportedType") ELSE r
         ELSE IF w.cls = Cut \/ w.rdata = "BytesEnd" THEN Err("BytesEnd")
              ELSE Err("UnknownType")

\* Record::decode_from_buf after the name and the type: the class, the ttl, the
\* data length and the data; w.rdata is the outcome of the type's data decoder.
RecordOfFields(w, node, t, c) ==
    IF ~node.ok THEN node
    ELSE IF ~t.ok THEN t
    ELSE IF w.cls = Cut THEN Err("BytesEnd")
    ELSE IF ~c.ok THEN c
    ELSE IF w.rdata # "ok" THEN Err(w.rdata)
    ELSE Ok([node |-> node.val, record_type |-> t.val, class |-> c.val,
             ttl |-> w.ttl, data |-> w.data])

\* Record::decode_from_buf
RecordDecodeFromBuf(w) ==
    RecordOfFields(w, NameFromBytes(w), decode_record_type_record(w), decode_class(w.cls))

\* ------------------------------------------------------------------ dns::message

\* The item decoder of a section, applied to the i-th item (from 0). An item
\* the message is too short to hold decodes as BytesEnd.
DecodeItem(sect, items, i) ==
    IF i + 1 > Len(items) THEN Err("BytesEnd")
    ELSE IF sect = "QuestionErr" THEN QuestionDecodeFromBuf(items[i + 1])
    ELSE RecordDecodeFromBuf(items[i + 1])

\* One section loop of Message::decode_from_bytes: items of unknown type are
\* skipped, any other error aborts with the section-tagged error.
RECURSIVE DecodeSection(_, _, _, _, _)
DecodeSectionStep(sect, items, count, i, acc, r) ==
    IF r.ok THEN DecodeSection(sect, items, count, i + 1, Append(acc, r.val))
    ELSE IF r.err = "UnknownType" THEN DecodeSection(sect, items, count, i + 1, acc)
    ELSE Err([sect |-> sect, idx |-> i, err |-> r.err])

DecodeSection(sect, items, count, i, acc) ==
    IF i >= count THEN Ok(acc)
    ELSE DecodeSectionStep(sect, items, count, i, acc, DecodeItem(sect, items, i))

\* The end of Message::decode_from_bytes: the first section error, or the message.
MessageOfSections(h, q, an, ns, ar) ==
    IF ~q.ok THEN q
    ELSE IF ~an.ok THEN an
    ELSE IF ~ns.ok THEN ns
    ELSE IF ~ar.ok THEN ar
    ELSE Ok([header |-> h, questions |-> q.val, answers |-> an.val,
             authorities |-> ns.val, additionals |-> ar.val])

\* Message::decode_from_bytes after the header h was decoded.
MessageDecodeBody(w, h, sup) ==
    IF ~sup.ok THEN Err([sect |-> "HeaderErr", idx |-> 0, err |-> sup.err])
    ELSE MessageOfSections(h,
            DecodeSection("QuestionErr", w.questions, h.questions_count, 0, <<>>),
            DecodeSection("AnswerErr", w.answers, h.answers_count, 0, <<>>),
            DecodeSection("AuthorityErr", w.authorities, h.authorities_count, 0, <<>>),
            DecodeSection("AdditionalErr", w.additionals, h.additionals_count, 0, <<>>))

\* Message::decode_from_bytes, h being the outcome of Header::decode_from_buf.
MessageDecodeWithHeader(w, h) ==
    IF ~h.ok THEN Err([sect |-> "HeaderErr", idx |-> 0, err |-> h.err])
    ELSE MessageDecodeBody(w, h.val, HeaderIsSupported(h.val))

\* Message::decode_from_bytes
MessageDecodeFromBytes(w) == MessageDecodeWithHeader(w, HeaderDecodeFromBuf(w.header))

\* MessageErr::inner_err
inner_err(e) == e.err

\* Question::encode_to_buf asserts the type and the class are supported.
QuestionEncodePanics(q) ==
    ~is_supported_for_question(q.record_type) \/ ~ClassIsSupported(q.class)

\* Record::encode_to_buf asserts the type and the class are supported.
RecordEncodePanics(r) ==
    ~is_supported_for_records(r.record_type) \/ r.class # "IN"

\* Message::encode_to_bytes. Header::encode_to_buf asserts the opcode is
\* supported; each section loop runs over the header's count and indexes the
\* section vector, which panics past its end. The bytes are given as the
\* message a reader of them obtains.
MessageEncodeToBytes(m) ==
    LET h == m.header IN
    IF ~OpCodeIsSupported(h.op_code) THEN [panic |-> TRUE]
    ELSE IF \/ h.questions_count > Len(m.questions)
            \/ h.answers_count > Len(m.answers)
            \/ h.authorities_count > Len(m.authorities)
            \/ h.additionals_count > Len(m.additionals)
         THEN [panic |-> TRUE]
    ELSE IF \/ \E i \in 1..h.questions_count : QuestionEncodePanics(m.questions[i])
            \/ \E i \in 1..h.answers_count : RecordEncodePanics(m.answers[i])
            \/ \E i \in 1..h.authorities_count : RecordEncodePanics(m.authorities[i])
            \/ \E i \in 1..h.additionals_count : RecordEncodePanics(m.additionals[i])
         THEN [panic |-> TRUE]
    ELSE [panic |-> FALSE,
          bytes |-> [header |-> h,
                     questions |-> SubSeq(m.questions, 1, h.questions_count),
                     answers |-> SubSeq(m.answers, 1, h.answers_count),
                     authorities |-> SubSeq(m.authorities, 1, h.authorities_count),
                     additionals |-> SubSeq(m.additionals, 1, h.additionals_count)]]

\* ------------------------------------------------------------------ net::tcp_server

\* The DnsReadResult of TcpRequest::read: req is the outcome of decoding the
\* message, h the outcome of decoding the header alone.
ReadResult(io, req, h) ==
    IF io THEN [kind |-> "IoErr"]
    ELSE IF req.ok THEN [kind |-> "FullMessage", msg |-> req.val]
    ELSE IF h.ok THEN [kind |-> "HeaderOnly", header |-> h.val, err |-> req.err]
    ELSE [kind |-> "ParseErr", err |-> req.err, hdr_err |-> h.err]

\* TcpRequest::read. w.io is TRUE when reading the length prefix or the body
\* from the stream fails.
TcpRequestRead(w) ==
    ReadResult(w.io, MessageDecodeFromBytes(w), HeaderDecodeFromBuf(w.header))

\* What a job leaves behind: the replies written and whether it panicked.
Outcome(sent, panicked) == [sent |-> sent, panicked |-> panicked]

\* The effect of TcpResponse::reply, enc being the outcome of encode_to_bytes:
\* unwrap, then the length prefix and the bytes are written to the stream.
WriteEncoded(enc) ==
    IF enc.panic THEN Outcome(<<>>, TRUE) ELSE Outcome(<<enc.bytes>>, FALSE)

\* TcpResponse::reply
TcpResponseReply(response) == WriteEncoded(MessageEncodeToBytes(response))

\* ------------------------------------------------------------------ resolver::handler

\* reply
reply(dns_response) == TcpResponseReply(dns_response)

\* resp_header_from_req_header
resp_header_from_req_header(req_header, resp_code) ==
    [req_header EXCEPT !.query_resp = TRUE,
                       !.auth_answer = FALSE,
                       !.recursion_available = TRUE,
                       !.z = 0,
                       !.resp_code = resp_code]

\* The message handle_decode_err replies with.
decode_err_response(req_header, parsing_err) ==
    [header |-> resp_header_from_req_header(req_header,
                    IF parsing_err \in {"UnsupportedOpCode", "UnsupportedClass", "UnsupportedType"}
                    THEN "NotImp" ELSE "FormErr"),
     questions |-> <<>>, answers |-> <<>>, authorities |-> <<>>, additionals |-> <<>>]

\* The header handle_err replies with.
err_header(h) ==
    [h EXCEPT !.answers_count = 0, !.authorities_count = 0, !.additionals_count = 0]

\* The message handle_err replies with.
err_response(dns_req, resp_code) ==
    [header |-> err_header(resp_header_from_req_header(dns_req.header, resp_code)),
     questions |-> dns_req.questions,
     answers |-> <<>>, authorities |-> <<>>, additionals |-> <<>>]

\* The header handle_query replies with on a successful lookup.
answer_header(h, res) ==
    [h EXCEPT !.answers_count = Len(res.answers),
              !.authorities_count = Len(res.authorities),
              !.additionals_count = Len(res.additionals)]

\* The message handle_query replies with on a successful lookup.
answer_response(req, res) ==
    [header |-> answer_header(resp_header_from_req_header(req.header, "NoError"), res),
     questions |-> req.questions,
     answers |-> res.answers,
     authorities |-> res.authorities,
     additionals |-> res.additionals]

\* validate_dns_request
validate_dns_request(dns_req) ==
    /\ is_request(dns_req.header)
    /\ dns_req.header.questions_count = 1
    /\ dns_req.header.answers_count = 0
    /\ dns_req.header.authorities_count = 0

\* What handle_request does with what req.read() returned, given the result of
\* lookup.perform(): "drop" (return without replying), "panic" (questions[0]
\* is read on an empty question section, in handle_request for the log line
\* and in handle_query), or the message handed to reply by handle_decode_err,
\* handle_err or handle_query.
handler_decision(read, lookup_result) ==
    CASE read.kind = "HeaderOnly" ->
            [do |-> "reply", msg |-> decode_err_response(read.header, inner_err(read.err))]
      [] read.kind = "ParseErr" -> [do |-> "drop"]
      [] read.kind = "IoErr" -> [do |-> "drop"]
      [] OTHER ->
            IF ~validate_dns_request(read.msg)
            THEN [do |-> "reply", msg |-> err_response(read.msg, "FormErr")]
            ELSE IF Len(read.msg.questions) = 0 THEN [do |-> "panic"]
            ELSE IF lookup_result.kind = "Err"
            THEN [do |-> "reply", msg |-> err_response(read.msg, "ServFail")]
            ELSE IF lookup_result.no_domain
            THEN [do |-> "reply", msg |-> err_response(read.msg, "NxDomain")]
            ELSE [do |-> "reply", msg |-> answer_response(read.msg, lookup_result)]

\* The effect of a decision of the handler on the connection.
Perform(d) ==
    CASE d.do = "drop" -> Outcome(<<>>, FALSE)
      [] d.do = "panic" -> Outcome(<<>>, TRUE)
      [] OTHER -> reply(d.msg)

\* handle_request
handle_request(read, lookup_result) == Perform(handler_decision(read, lookup_result))

\* TRUE when handle_request reaches the lookup.
ReachesLookup(read) ==
    /\ read.kind = "FullMessage"
    /\ validate_dns_request(read.msg)
    /\ Len(read.msg.questions) > 0

\* ------------------------------------------------------------------ requests on the wire

WireQuestion(res, typ, cls) ==
    [name_res |-> res, node |-> NameA, typ |-> typ, cls |-> cls]

\* Questions a client may send: well formed (A, NS), of unknown type number
\* (28), of known but unsupported type (MD = 3, AXFR = 252), of unsupported or
\* unknown class, with a bad name, or cut short.
WireQuestions ==
    { WireQuestion("ok", 1, 1), WireQuestion("ok", 28, 1), WireQuestion("ok", 3, 1),
      WireQuestion("ok", 252, 1), WireQuestion("ok", 1, 3), WireQuestion("ok", 1, 9),
      WireQuestion("DomainNameErr", 1, 1), WireQuestion("ok", 1, Cut) }

WireRecord(typ, rdata) ==
    [name_res |-> "ok", node |-> NameA, typ |-> typ, cls |-> 1, ttl |-> 5,
     rdata |-> rdata, data |-> <<1, 2, 3, 4>>]

\* Records a client may put in a request: a well-formed A record and one whose
\* data length does not match.
WireRecords == { WireRecord(1, "ok"), WireRecord(1, "DataLenMismatch") }

WireHeaders ==
    [complete : BOOLEAN, id : {17, 42}, qr : {0, 1}, op : {0, 1, 5}, aa : {0},
     tc : {0}, rd : {1}, ra : {0}, z : {0}, rc : {0},
     qd : 0..MaxQuestions, an : 0..MaxRecords, ns : 0..MaxRecords, ar : 0..MaxRecords]

\* A section as it is on the wire: as many items as the header counts, or
\* fewer when the message ends inside the section.
WireSections(S, count) == UNION {[1..k -> S] : k \in 0..count}

\* The message ends inside a section: the sections after it hold nothing.
CutShort(w) ==
    /\ Len(w.questions) < w.header.qd =>
          w.answers = <<>> /\ w.authorities = <<>> /\ w.additionals = <<>>
    /\ Len(w.answers) < w.header.an => w.authorities = <<>> /\ w.additionals = <<>>
    /\ Len(w.authorities) < w.header.ns => w.additionals = <<>>

\* The requests of the model with header h: for each section at most as many
\* items as the header counts. A request that cannot be read from the stream,
\* or that is shorter than a header, has no sections.
WireRequestsOf(h, io) ==
    IF io \/ ~h.complete
    THEN {[io |-> io, header |-> h, questions |-> <<>>, answers |-> <<>>,
           authorities |-> <<>>, additionals |-> <<>>]}
    ELSE { w \in [io : {io}, header : {h},
                  questions : WireSections(WireQuestions, h.qd),
                  answers : WireSections(WireRecords, h.an),
                  authorities : WireSections(WireRecords, h.ns),
                  additionals : WireSections(WireRecords, h.ar)] : CutShort(w) }

AnswerRecord == [node |-> NameA, record_type |-> "A", class |-> "IN", ttl |-> 5,
                 data |-> <<1, 2, 3, 4>>]

\* The results lookup.perform() may hand to handle_query.
LookupResults ==
    { [kind |-> "Err"],
      [kind |-> "Ok", no_domain |-> TRUE, answers |-> <<>>, authorities |-> <<>>,
       additionals |-> <<>>],
      [kind |-> "Ok", no_domain |-> FALSE, answers |-> <<AnswerRecord>>,
       authorities |-> <<>>, additionals |-> <<>>] }

NoLookup == [kind |-> "none"]
NoRead == [kind |-> "none"]
NoRequest == [io |-> FALSE]

\* ------------------------------------------------------------------ handler actions

HandlerInit ==
    /\ h_pc = "idle"
    /\ h_req = NoRequest
    /\ h_read = NoRead
    /\ h_lookup = NoLookup
    /\ h_sent = <<>>
    /\ h_panicked = FALSE

\* A client connects and sends a request; the acceptor hands it to a worker.
Receive ==
    /\ h_pc = "idle"
    /\ \E h \in WireHeaders, io \in BOOLEAN :
          \E w \in WireRequestsOf(h, io) : h_req' = w
    /\ h_pc' = "received"
    /\ UNCHANGED <<h_read, h_lookup, h_sent, h_panicked>>
    /\ UNCHANGED <<cacheVars, poolVars, lookupVars, serverVars, callVars>>

\* The job's effect once the request was read and the lookup, if any, made.
Finish(read, res, out) ==
    /\ h_read' = read
    /\ h_lookup' = res
    /\ h_sent' = out.sent
    /\ h_panicked' = out.panicked

\* handle_request on the read outcome, for each result the lookup may give.
HandleRead(read) ==
    \E res \in (IF ReachesLookup(read) THEN LookupResults ELSE {NoLookup}) :
        Finish(read, res, handle_request(read, res))

\* The worker runs handle_request on the connection.
HandleRequest ==
    /\ h_pc = "received"
    /\ HandleRead(TcpRequestRead(h_req))
    /\ h_pc' = "done"
    /\ UNCHANGED h_req
    /\ UNCHANGED <<cacheVars, poolVars, lookupVars, serverVars, callVars>>

\* ------------------------------------------------------------------ resolver::back_end::cache

\* The last instant of the clock.
MaxNow == 2
\* The largest ttl of a set, in ticks.
MaxTtl == 1

CacheKeys == {"k1", "k2"}
CacheVals == {"v1"}

\* Option<T>
None == <<>>
Some(x) == <<x>>

\* HashMap::insert and HashMap::remove
Insert(d, k, e) == [x \in (DOMAIN d) \cup {k} |-> IF x = k THEN e ELSE d[x]]
Without(d, k) == [x \in (DOMAIN d) \ {k} |-> d[x]]

\* HashMap::get
Get(d, k) == IF k \in DOMAIN d THEN Some(d[k]) ELSE None

\* is_expired, t being time::Instant::now()
is_expired_strict(instant, t) == instant < t
is_expired(instant, t) == instant <= t

\* Cache::set with the lock held at time t: the new map and the returned value.
set(d, t, k, ttl, v) ==
    [data |-> Insert(d, k, [exp |-> t + ttl, val |-> v]),
     ret |-> IF k \in DOMAIN d /\ ~is_expired(d[k].exp, t) THEN Some(d[k]) ELSE None]

\* Cache::remove
remove(d, t, k) ==
    [data |-> Without(d, k),
     ret |-> IF k \in DOMAIN d /\ ~is_expired(d[k].exp, t) THEN Some(d[k]) ELSE None]

\* Cache::clean
clean_keep_due(d, t) == [x \in {k \in DOMAIN d : d[k].exp >= t} |-> d[x]]
clean(d, t) == [x \in {k \in DOMAIN d : ~is_expired(d[k].exp, t)} |-> d[x]]

\* Cache::get_clone
get_clone(d, t, k) ==
    IF k \notin DOMAIN d THEN [data |-> d, ret |-> None]
    ELSE IF is_expired(d[k].exp, t) THEN [data |-> Without(d, k), ret |-> None]
    ELSE [data |-> d, ret |-> Some(d[k])]

NoRet == [at |-> -1]

CacheInit ==
    /\ now = 0
    /\ data = <<>>
    /\ sw_pc = "sleeping"
    /\ sw_cleaned = {}
    /\ g_pc = "idle"
    /\ g_key = "none"
    /\ g_call = 0
    /\ g_ret = NoRet
    /\ zero_set = [k \in CacheKeys |-> FALSE]

\* Time passes.
Tick ==
    /\ now < MaxNow
    /\ now' = now + 1
    /\ UNCHANGED <<data, sw_pc, sw_cleaned, g_pc, g_key, g_call, g_ret, zero_set>>
    /\ UNCHANGED <<handlerVars, poolVars, lookupVars, serverVars, callVars>>

\* Some thread calls set.
Set ==
    /\ \E k \in CacheKeys, ttl \in 0..MaxTtl, v \in CacheVals :
          /\ data' = set(data, now, k, ttl, v).data
          /\ zero_set' = [zero_set EXCEPT ![k] = (ttl = 0)]
    /\ UNCHANGED <<now, sw_pc, sw_cleaned, g_pc, g_key, g_call, g_ret>>
    /\ UNCHANGED <<handlerVars, poolVars, lookupVars, serverVars, callVars>>

\* Some thread calls remove.
Remove ==
    /\ \E k \in CacheKeys : data' = remove(data, now, k).data
    /\ UNCHANGED <<now, sw_pc, sw_cleaned, g_pc, g_key, g_call, g_ret, zero_set>>
    /\ UNCHANGED <<handlerVars, poolVars, lookupVars, serverVars, callVars>>

\* Some thread calls clean.
Clean ==
    /\ data' = clean(data, now)
    /\ UNCHANGED <<now, sw_pc, sw_cleaned, g_pc, g_key, g_call, g_ret, zero_set>>
    /\ UNCHANGED <<handlerVars, poolVars, lookupVars, serverVars, callVars>>

\* A thread calls get_clone and waits for the lock.
GetCall ==
    /\ g_pc = "idle"
    /\ \E k \in CacheKeys : g_key' = k
    /\ g_call' = now
    /\ g_pc' = "called"
    /\ UNCHANGED <<now, data, sw_pc, sw_cleaned, g_ret, zero_set>>
    /\ UNCHANGED <<handlerVars, poolVars, lookupVars, serverVars, callVars>>

\* What a get_clone that ran at time t on map d for key k found and returned.
GetRecord(d, t, k, r) ==
    [at |-> t, found |-> Get(d, k), res |-> r.ret,
     present_after |-> k \in DOMAIN r.data, zero |-> zero_set[k]]

\* The thread takes the lock, get_clone runs and returns.
GetReturn ==
    /\ g_pc = "called"
    /\ data' = get_clone(data, now, g_key).data
    /\ g_ret' = GetRecord(data, now, g_key, get_clone(data, now, g_key))
    /\ g_pc' = "idle"
    /\ UNCHANGED <<now, sw_pc, sw_cleaned, g_key, g_call, zero_set>>
    /\ UNCHANGED <<handlerVars, poolVars, lookupVars, serverVars, callVars>>

\* The sweeper's sleep(period) ends.
SweeperWake ==
    /\ sw_pc = "sleeping"
    /\ sw_pc' = "cleaning"
    /\ UNCHANGED <<now, data, sw_cleaned, g_pc, g_key, g_call, g_ret, zero_set>>
    /\ UNCHANGED <<handlerVars, poolVars, lookupVars, serverVars, callVars>>

\* The sweeper runs clean() and goes back to sleep.
SweeperClean ==
    /\ sw_pc = "cleaning"
    /\ data' = clean(data, now)
    /\ sw_cleaned' = (DOMAIN data) \ (DOMAIN data')
    /\ sw_pc' = "sleeping"
    /\ UNCHANGED <<now, g_pc, g_key, g_call, g_ret, zero_set>>
    /\ UNCHANGED <<handlerVars, poolVars, lookupVars, serverVars, callVars>>

\* ------------------------------------------------------------------ shared::thread_pool

\* The number of workers of the pool.
PoolSize == 2
\* The number of jobs handed to the pool.
MaxJobs == 3

Workers == 1..PoolSize

\* WorkerMessage
Job(id, panics) == [kind |-> "Job", id |-> id, panics |-> panics]
Stop == [kind |-> "Stop"]
NoJob == [kind |-> "none"]

\* The threads of the pool that have neither returned nor panicked.
LiveWorkers == {w \in Workers : w_pc[w] \notin {"exited", "dead"}}

\* ThreadPool::new: the workers are spawned, the channel is empty.
PoolInit ==
    /\ p_queue = <<>>
    /\ p_lock = 0
    /\ p_poisoned = FALSE
    /\ p_sender = TRUE
    /\ p_main = "running"
    /\ p_joined = 0
    /\ p_sent = 0
    /\ p_done = {}
    /\ w_pc = [w \in Workers |-> "lock"]
    /\ w_job = [w \in Workers |-> NoJob]

\* ThreadPool::execute: send(job).unwrap(). The send fails, and the owner
\* panics, when the receiver is gone: every clone of its Arc is owned by a
\* worker thread, so it is gone once no worker thread is left.
Execute ==
    /\ p_main = "running"
    /\ p_sent < MaxJobs
    /\ IF LiveWorkers = {}
       THEN /\ p_main' = "panicked"
            /\ p_sender' = FALSE
            /\ UNCHANGED <<p_queue, p_sent>>
       ELSE /\ \E panics \in BOOLEAN : p_queue' = Append(p_queue, Job(p_sent + 1, panics))
            /\ p_sent' = p_sent + 1
            /\ UNCHANGED <<p_main, p_sender>>
    /\ UNCHANGED <<p_lock, p_poisoned, p_joined, p_done, w_pc, w_job>>
    /\ UNCHANGED <<handlerVars, cacheVars, lookupVars, serverVars, callVars>>

\* Worker loop: receiver.lock().unwrap(); the unwrap panics on a poisoned mutex.
WorkerLock ==
    /\ \E w \in Workers :
          /\ w_pc[w] = "lock"
          /\ p_lock = 0
          /\ IF p_poisoned
             THEN w_pc' = [w_pc EXCEPT ![w] = "dead"] /\ UNCHANGED p_lock
             ELSE w_pc' = [w_pc EXCEPT ![w] = "recv"] /\ p_lock' = w
    /\ UNCHANGED <<p_queue, p_poisoned, p_sender, p_main, p_joined, p_sent, p_done, w_job>>
    /\ UNCHANGED <<handlerVars, cacheVars, lookupVars, serverVars, callVars>>

\* Worker loop: recv().unwrap() with the lock held, then the guard is dropped:
\* Stop makes the thread return, a job is kept to be run. With the channel
\* empty and the sender gone recv fails and the unwrap panics, lock held.
WorkerRecv ==
    /\ \E w \in Workers :
          /\ w_pc[w] = "recv"
          /\ IF p_queue # <<>>
             THEN /\ p_queue' = Tail(p_queue)
                  /\ w_pc' = [w_pc EXCEPT ![w] = IF Head(p_queue) = Stop THEN "exited" ELSE "run"]
                  /\ w_job' = [w_job EXCEPT ![w] = Head(p_queue)]
                  /\ UNCHANGED p_poisoned
             ELSE /\ ~p_sender
                  /\ w_pc' = [w_pc EXCEPT ![w] = "dead"]
                  /\ p_poisoned' = TRUE
                  /\ UNCHANGED <<p_queue, w_job>>
    /\ p_lock' = 0
    /\ UNCHANGED <<p_sender, p_main, p_joined, p_sent, p_done>>
    /\ UNCHANGED <<handlerVars, cacheVars, lookupVars, serverVars, callVars>>

\* Worker loop: job_fn(). A panic of the job unwinds the worker thread, as
\* nothing in the loop catches it; otherwise the worker loops.
WorkerRun ==
    /\ \E w \in Workers :
          /\ w_pc[w] = "run"
          /\ IF w_job[w].panics
             THEN w_pc' = [w_pc EXCEPT ![w] = "dead"] /\ UNCHANGED p_done
             ELSE w_pc' = [w_pc EXCEPT ![w] = "lock"] /\ p_done' = p_done \cup {w_job[w].id}
    /\ UNCHANGED <<p_queue, p_lock, p_poisoned, p_sender, p_main, p_joined, p_sent, w_job>>
    /\ UNCHANGED <<handlerVars, cacheVars, lookupVars, serverVars, callVars>>

\* The Stop messages drop sends: one per worker of the vector.
Stops == [i \in 1..PoolSize |-> Stop]

\* ThreadPool::drop, first loop: Stop is sent once per worker. The send
\* fails, and drop panics, when no worker thread is left.
DropSend ==
    /\ p_main = "running"
    /\ IF LiveWorkers = {}
       THEN p_main' = "panicked" /\ p_sender' = FALSE /\ UNCHANGED p_queue
       ELSE p_main' = "joining" /\ p_queue' = p_queue \o Stops /\ UNCHANGED p_sender
    /\ UNCHANGED <<p_lock, p_poisoned, p_joined, p_sent, p_done, w_pc, w_job>>
    /\ UNCHANGED <<handlerVars, cacheVars, lookupVars, serverVars, callVars>>

\* ThreadPool::drop, second loop: handle.join().unwrap() on the next worker.
\* join returns Err for a thread that panicked, and the unwrap panics; the
\* fields of the pool, the sender among them, are dropped in both cases.
DropJoin ==
    /\ p_main = "joining"
    /\ IF p_joined = PoolSize
       THEN p_main' = "dropped" /\ p_sender' = FALSE /\ UNCHANGED p_joined
       ELSE /\ w_pc[p_joined + 1] \in {"exited", "dead"}
            /\ IF w_pc[p_joined + 1] = "dead"
               THEN p_main' = "panicked" /\ p_sender' = FALSE /\ UNCHANGED p_joined
               ELSE p_joined' = p_joined + 1 /\ UNCHANGED <<p_main, p_sender>>
    /\ UNCHANGED <<p_queue, p_lock, p_poisoned, p_sent, p_done, w_pc, w_job>>
    /\ UNCHANGED <<handlerVars, cacheVars, lookupVars, serverVars, callVars>>

\* ------------------------------------------------------------------ resolver::back_end (records, strings)

\* The ticks of the clock in one second.
TicksPerSec == 2

NameN == <<"n", ".">>

\* str::ends_with
EndsWith(s, suffix) ==
    /\ Len(suffix) <= Len(s)
    /\ SubSeq(s, Len(s) - Len(suffix) + 1, Len(s)) = suffix

\* A record of class IN.
Rec(node, type, ttl, rdata) ==
    [node |-> node, record_type |-> type, class |-> "IN", ttl |-> ttl, data |-> rdata]

\* Record::set_ttl on every record of a vector.
WithTtl(records, ttl) == [i \in DOMAIN records |-> [records[i] EXCEPT !.ttl = ttl]]

\* Vec::swap_remove, i counted from 1.
SwapRemove(v, i) ==
    [j \in 1..(Len(v) - 1) |-> IF j = i THEN v[Len(v)] ELSE v[j]]

\* The index of the first record of v, from position start on, of the given
\* node and type; 0 when there is none.
FirstMatch(v, start, kind, node) ==
    IF \E j \in start..Len(v) : v[j].node = node /\ v[j].record_type = kind
    THEN CHOOSE j \in start..Len(v) :
            /\ v[j].node = node /\ v[j].record_type = kind
            /\ \A x \in start..(j - 1) : ~(v[x].node = node /\ v[x].record_type = kind)
    ELSE 0

\* extract_records: the records found and what is left of the vector.
RECURSIVE ExtractLoop(_, _, _, _, _)
ExtractAt(v, kind, node, i, acc) ==
    IF i = 0 THEN [found |-> acc, rest |-> v]
    ELSE ExtractLoop(SwapRemove(v, i), kind, node, i, Append(acc, v[i]))

ExtractLoop(v, kind, node, start, acc) ==
    IF start > Len(v) THEN [found |-> acc, rest |-> v]
    ELSE ExtractAt(v, kind, node, FirstMatch(v, start, kind, node), acc)

extract_records(v, kind, node) == ExtractLoop(v, kind, node, 1, <<>>)

\* extract_record: the record found, if any, and what is left of the vector.
ExtractOneAt(v, i) ==
    IF i = 0 THEN [found |-> None, rest |-> v]
    ELSE [found |-> Some(v[i]), rest |-> SwapRemove(v, i)]

extract_record(v, kind, node) == ExtractOneAt(v, FirstMatch(v, 1, kind, node))

\* NextSubzoneNs and its accessors
NextSubzoneNs(ns_record, a_records) == [ns_record |-> ns_record, a_records |-> a_records]
NsNode(ns) == ns.ns_record.data
NsZone(ns) == ns.ns_record.node
NsAddrs(ns) == [i \in DOMAIN ns.a_records |-> ns.a_records[i].data]

\* ROOT_SERVERS: the first label and the address of each root nameserver.
ROOT_SERVERS ==
    <<
       <<"a", <<198, 41, 0, 4>>>>,
       <<"b", <<199, 9, 14, 201>>>>,
       <<"c", <<192, 33, 4, 12>>>>,
       <<"d", <<199, 7, 91, 13>>>>,
       <<"e", <<192, 203, 230, 10>>>>,
       <<"f", <<192, 5, 5, 241>>>>,
       <<"g", <<192, 112, 36, 4>>>>,
       <<"h", <<198, 97, 190, 53>>>>,
       <<"i", <<192, 36, 148, 17>>>>,
       <<"j", <<192, 58, 128, 30>>>>,
       <<"k", <<193, 0, 14, 129>>>>,
       <<"l", <<199, 7, 83, 42>>>>,
       <<"m", <<202, 12, 27, 33>>>>
    >>

\* The name of a root nameserver: its label followed by ".root-servers.net."
RootServerName(label) == <<label, ".", "r", "o", "o", "t", "-", "s", "e", "r", "v", "e", "r", "s", ".", "n", "e", "t", ".">>

\* root_zone_nameservers
root_zone_nameservers ==
    [i \in DOMAIN ROOT_SERVERS |->
        NextSubzoneNs(Rec(NameRoot, "NS", 100000, RootServerName(ROOT_SERVERS[i][1])),
                      <<Rec(RootServerName(ROOT_SERVERS[i][1]), "A", 10000, ROOT_SERVERS[i][2])>>)]

\* The elements of v that have, or have not, an address, in their order.
RECURSIVE KeepAddr(_, _)
KeepAddr(v, with) ==
    IF v = <<>> THEN <<>>
    ELSE IF (Head(v).a_records # <<>>) = with THEN <<Head(v)>> \o KeepAddr(Tail(v), with)
    ELSE KeepAddr(Tail(v), with)

\* sort_nameservers: a stable sort that puts first the nameservers with an address.
sort_nameservers_as_given(v) == v
sort_nameservers(v) == KeepAddr(v, TRUE) \o KeepAddr(v, FALSE)

\* Iterator::take
Take(v, n) == SubSeq(v, 1, IF Len(v) < n THEN Len(v) ELSE n)

\* detect_cname_loops: TRUE when a loop is detected.
detect_cname_loops_on_target(cname_record, previous_cnames) ==
    \E i \in DOMAIN previous_cnames : previous_cnames[i].data = cname_record.data
detect_cname_loops(cname_record, previous_cnames) ==
    \E i \in DOMAIN previous_cnames : previous_cnames[i].node = cname_record.data

\* detect_zones_loop: TRUE when a loop is detected.
detect_zones_loop_last(next_zone, previous_zones) ==
    previous_zones # <<>> /\ previous_zones[Len(previous_zones)] = next_zone
detect_zones_loop(next_zone, previous_zones) ==
    \E i \in DOMAIN previous_zones : previous_zones[i] = next_zone

\* ------------------------------------------------------------------ resolver::back_end::recursive (cache access)

\* The least ttl of a non-empty vector of records.
MinTtl(records) ==
    CHOOSE t \in {records[i].ttl : i \in DOMAIN records} :
        \A i \in DOMAIN records : t <= records[i].ttl

\* TRUE when one of the assertions search_records_in_cache makes on an entry fails.
EntryAssertFails(entry, before_get) ==
    \E i \in DOMAIN entry.val :
        \/ entry.val[i].record_type # entry.val[1].record_type
        \/ entry.val[i].ttl # entry.val[1].ttl
        \/ ~(entry.exp > before_get)

\* search_records_in_cache after get_clone returned g: the records, their
\* ttl set to the whole seconds between before_get and the expiry, the new
\* map, and whether an assertion failed.
SearchOutcome(g, before_get) ==
    IF g.ret = None \/ g.ret[1].val = <<>>
    THEN [data |-> g.data, records |-> <<>>, panic |-> FALSE]
    ELSE IF EntryAssertFails(g.ret[1], before_get)
    THEN [data |-> g.data, records |-> <<>>, panic |-> TRUE]
    ELSE [data |-> g.data, panic |-> FALSE,
          records |-> WithTtl(g.ret[1].val, (g.ret[1].exp - before_get) \div TicksPerSec)]

\* search_records_in_cache: before_get is the clock read before get_clone, t
\* the clock when get_clone holds the lock.
search_records_in_cache(d, before_get, t, node, kind) ==
    SearchOutcome(get_clone(d, t, <<node, kind>>), before_get)

\* save_records_in_cache, on a non-empty vector of records of one type: the new map.
save_records_as_given(d, t, records) ==
    set(d, t, <<records[1].node, records[1].record_type>>,
        MinTtl(records) * TicksPerSec, records).data
save_records_in_cache(d, t, records) ==
    set(d, t, <<records[1].node, records[1].record_type>>,
        MinTtl(records) * TicksPerSec, WithTtl(records, MinTtl(records))).data

\* The ns_record of every element of next_nss.
NsRecords(next_nss) == [i \in DOMAIN next_nss |-> next_nss[i].ns_record]

\* The loop of save_nss_in_cache: the address records of each nameserver are saved.
RECURSIVE SaveAddrs(_, _, _)
SaveAddrs(d, t, next_nss) ==
    IF next_nss = <<>> THEN d
    ELSE IF Head(next_nss).a_records = <<>> THEN SaveAddrs(d, t, Tail(next_nss))
    ELSE SaveAddrs(save_records_in_cache(d, t, Head(next_nss).a_records), t, Tail(next_nss))

\* save_nss_in_cache
save_nss_in_cache(d, t, next_nss) ==
    save_records_in_cache(SaveAddrs(d, t, next_nss), t, NsRecords(next_nss))

\* The part of a name after its first dot.
AfterFirstDot(node) ==
    SubSeq(node, 1 + (CHOOSE i \in DOMAIN node : node[i] = "." /\ \A j \in 1..(i - 1) : node[j] # "."),
           Len(node))

\* generate_domain_hierarchy
RECURSIVE generate_domain_hierarchy(_)
generate_domain_hierarchy(node) ==
    IF (\A i \in DOMAIN node : node[i] # ".") \/ AfterFirstDot(node) = <<>>
    THEN <<node>>
    ELSE <<node>> \o generate_domain_hierarchy(AfterFirstDot(node))

\* search_nss_in_cache_with_trace, second part: each NS record found is given
\* the address records the cache holds for its target. The map is threaded
\* through the reads, which remove the expired entries they find.
RECURSIVE AttachAddrs(_, _, _, _)
AttachStep(r, t, ns_records, acc) ==
    AttachAddrs(r.data, t, Tail(ns_records), Append(acc, NextSubzoneNs(Head(ns_records), r.records)))

AttachAddrs(d, t, ns_records, acc) ==
    IF ns_records = <<>> THEN [data |-> d, nss |-> acc]
    ELSE AttachStep(search_records_in_cache(d, t, t, Head(ns_records).data, "A"), t, ns_records, acc)

\* search_nss_in_cache_with_trace, first part: the NS records of the first
\* domain of the hierarchy that has some in the cache.
RECURSIVE FindNsRecords(_, _, _)
FindStep(r, t, domains) ==
    IF r.records # <<>> THEN AttachAddrs(r.data, t, r.records, <<>>)
    ELSE FindNsRecords(r.data, t, Tail(domains))

FindNsRecords(d, t, domains) ==
    IF domains = <<>> THEN [data |-> d, nss |-> <<>>]
    ELSE FindStep(search_records_in_cache(d, t, t, Head(domains), "NS"), t, domains)

\* search_nss_in_cache_with_trace: the new map and the nameservers found.
search_nss_in_cache(d, t, searched_node) ==
    FindNsRecords(d, t, generate_domain_hierarchy(searched_node))

\* ------------------------------------------------------------------ resolver::back_end::requests

\* is_nameserver_authoritative_over_node
is_nameserver_authoritative_over_node(ns_zone, searched_node) == EndsWith(searched_node, ns_zone)

\* is_nameserver_authority_a_subzone
is_nameserver_authority_a_subzone_or_same(ns_zone, current_zone) == ~(Len(ns_zone) < Len(current_zone))
is_nameserver_authority_a_subzone(ns_zone, current_zone) == ~(Len(ns_zone) <= Len(current_zone))

\* is_nameserver_in_subzone_without_glue
is_nameserver_in_subzone_without_glue(ns_node, ns_zone, no_addr) ==
    EndsWith(ns_node, ns_zone) /\ no_addr

\* The map step of the two extract_next_nss functions: the NS records kept
\* are given, in order, the A records of the additional section owned by
\* their target, which are removed from the section.
RECURSIVE GlueLoop(_, _, _)
GlueStep(ns_records, x, acc) ==
    GlueLoop(Tail(ns_records), x.rest, Append(acc, NextSubzoneNs(Head(ns_records), x.found)))

GlueLoop(ns_records, additionals, acc) ==
    IF ns_records = <<>> THEN acc
    ELSE GlueStep(ns_records, extract_records(additionals, "A", Head(ns_records).data), acc)

\* extract_next_nss_for_cname
extract_next_nss_for_cname(response, cname) ==
    GlueLoop(SelectSeq(response.authorities,
                       LAMBDA rec : rec.record_type = "NS" /\ EndsWith(cname, rec.node)),
             response.additionals, <<>>)

\* extract_next_nss_for_subzone
extract_next_nss_for_subzone(resp, node, zone) ==
    SelectSeq(
        GlueLoop(SelectSeq(resp.authorities,
                           LAMBDA rec : /\ rec.record_type = "NS"
                                        /\ is_nameserver_authoritative_over_node(rec.node, node)
                                        /\ is_nameserver_authority_a_subzone(rec.node, zone)),
                 resp.additionals, <<>>),
        LAMBDA ns : ~is_nameserver_in_subzone_without_glue(NsNode(ns), NsZone(ns), NsAddrs(ns) = <<>>))

\* perform_request, last case: a delegation or an empty response.
ClassifyDelegation(next_nss) ==
    IF next_nss # <<>> THEN [kind |-> "Delegation", next_nss |-> next_nss]
    ELSE [kind |-> "Err", err |-> "UnexpectedEmptyResp"]

\* perform_request, third case: a CNAME at the searched node, cname being
\* what extract_record found in what the first extraction left of the answers.
ClassifyAlias(resp, searched_node, current_zone, cname) ==
    IF cname.found # None
    THEN [kind |-> "Alias", cname_rec |-> cname.found[1],
          next_nss |-> extract_next_nss_for_cname(resp, cname.found[1].data)]
    ELSE ClassifyDelegation(extract_next_nss_for_subzone(resp, searched_node, current_zone))

\* perform_request, second case: records of the searched type and node.
ClassifyAnswer(resp, searched_node, current_zone, x) ==
    IF x.found # <<>>
    THEN [kind |-> "Answer", answers |-> x.found, additionals |-> resp.additionals]
    ELSE ClassifyAlias(resp, searched_node, current_zone, extract_record(x.rest, "CNAME", searched_node))

\* The NoDomain response: soa is what extract_record found in the authorities.
NoDomainOf(soa) == [kind |-> "NoDomain", soa_rec |-> soa.found]

\* perform_request once send_query_with_retries returned the response resp
\* of the nameserver of zone current_zone.
perform_request_any_nx(resp, searched_node, searched_type, current_zone) ==
    IF resp.resp_code = "NoError"
    THEN ClassifyAnswer(resp, searched_node, current_zone,
                        extract_records(resp.answers, searched_type, searched_node))
    ELSE IF resp.resp_code = "NxDomain"
    THEN NoDomainOf(extract_record(resp.authorities, "SOA", searched_node))
    ELSE [kind |-> "Err", err |-> "UnexpectedRespCode"]
perform_request(resp, searched_node, searched_type, current_zone) ==
    IF resp.resp_code = "NoError"
    THEN ClassifyAnswer(resp, searched_node, current_zone,
                        extract_records(resp.answers, searched_type, searched_node))
    ELSE IF resp.resp_code = "NxDomain" /\ resp.auth_answer
    THEN NoDomainOf(extract_record(resp.authorities, "SOA", searched_node))
    ELSE [kind |-> "Err", err |-> "UnexpectedRespCode"]

\* ------------------------------------------------------------------ resolver::back_end::recursive (Lookup)

\* ResolverParams: the configured number of outer-loop iterations and of
\* nameservers queried for one zone.
max_cname_redir == 2
max_ns_queried == 3

NoResult == [kind |-> "none"]
NoNs == NextSubzoneNs(Rec(<<>>, "NS", 0, <<>>), <<>>)

\* LookupResponse and the error of a lookup; a panic ends the thread.
OkResponse(answers, authorities, additionals, no_domain) ==
    [kind |-> "Ok", answers |-> answers, authorities |-> authorities,
     additionals |-> additionals, no_domain |-> no_domain]
ErrResponse(e) == [kind |-> "Err", err |-> e]
Panic == [kind |-> "Panic"]

\* A Lookup object together with the position of its execution: pc,
\* the iterations begun (iter), the clock read by the last cache search
\* (before_get), the locals of query_nameservers_iteratively (queue, error,
\* cur) and the result once it returned. req_node, followed, probes and
\* queried record what the lookup did: the node asked for, the CNAMEs
\* followed, the cache probes and whether an upstream query was sent in the
\* current iteration, the CNAME last handed to handle_cname with the CNAMEs
\* collected before it (met), the number of delegations followed (delegs) and
\* how many of them since the searched node last changed (node_delegs).
Lookup(node, kind, zones, no_follow) ==
    [searched_node |-> node, searched_kind |-> kind, previous_zones |-> zones,
     previous_cnames |-> <<>>, next_nss |-> <<>>, no_follow_cname |-> no_follow,
     iter |-> 0, pc |-> "loop", before_get |-> 0, queue |-> <<>>, error |-> None,
     cur |-> NoNs, result |-> NoResult,
     req_node |-> node, followed |-> <<>>, probes |-> <<>>, queried |-> FALSE,
     met |-> None, delegs |-> 0, node_delegs |-> 0]

\* Resolver::new_lookup
new_lookup(node, kind) == Lookup(node, kind, <<>>, FALSE)

\* The lookup returns res.
Return(f, res) == [f EXCEPT !.result = res, !.pc = "done"]

\* Option::get_or_insert
get_or_insert(error, e) == IF error = None THEN Some(e) ELSE error

\* Lookup::handle_cname, followed by the continue of the outer loop or by
\* the return of its error: the lookup and the map afterwards.
handle_cname(f, d, t, cname_record, next_nss) ==
    IF detect_cname_loops(cname_record, f.previous_cnames)
    THEN [f |-> Return(f, ErrResponse("CnamesLoop")), data |-> d]
    ELSE IF f.no_follow_cname
    THEN [f |-> Return([f EXCEPT !.previous_cnames = Append(@, cname_record)],
                       ErrResponse("UnexpectedCname")),
          data |-> d]
    ELSE [f |-> [f EXCEPT !.previous_cnames = Append(@, cname_record),
                          !.next_nss = next_nss,
                          !.searched_node = cname_record.data,
                          !.followed = Append(@, cname_record),
                          !.node_delegs = 0,
                          !.pc = "loop"],
          data |-> save_records_in_cache(d, t, <<cname_record>>)]

\* perform_inner, head of the outer loop: the budget is checked, and the
\* first cache search reads the clock.
LoopHeadOneMore(f, t) ==
    IF f.iter > max_cname_redir THEN Return(f, ErrResponse("MaxCnameRedir"))
    ELSE [f EXCEPT !.iter = @ + 1, !.before_get = t, !.probes = <<>>,
                   !.queried = FALSE, !.met = None, !.pc = "answers"]
LoopHead(f, t) ==
    IF f.iter >= max_cname_redir THEN Return(f, ErrResponse("MaxCnameRedir"))
    ELSE [f EXCEPT !.iter = @ + 1, !.before_get = t, !.probes = <<>>,
                   !.queried = FALSE, !.met = None, !.pc = "answers"]

\* perform_inner after the cache was searched for the searched type, r being
\* the outcome of the search: a hit is returned after the collected CNAMEs,
\* else the search for a CNAME reads the clock.
AfterAnswersProbeCachedFirst(f, r, t) ==
    IF r.panic THEN Return(f, Panic)
    ELSE IF r.records # <<>>
    THEN Return([f EXCEPT !.previous_cnames = <<>>,
                          !.probes = Append(@, [kind |-> f.searched_kind, hit |-> TRUE])],
                OkResponse(r.records \o f.previous_cnames, <<>>, <<>>, FALSE))
    ELSE [f EXCEPT !.pc = "cnames", !.before_get = t,
                   !.probes = Append(@, [kind |-> f.searched_kind, hit |-> FALSE])]
AfterAnswersProbe(f, r, t) ==
    IF r.panic THEN Return(f, Panic)
    ELSE IF r.records # <<>>
    THEN Return([f EXCEPT !.previous_cnames = <<>>,
                          !.probes = Append(@, [kind |-> f.searched_kind, hit |-> TRUE])],
                OkResponse(f.previous_cnames \o r.records, <<>>, <<>>, FALSE))
    ELSE [f EXCEPT !.pc = "cnames", !.before_get = t,
                   !.probes = Append(@, [kind |-> f.searched_kind, hit |-> FALSE])]

\* perform_inner after the cache was searched for a CNAME.
AfterCnamesProbe(f, r, t) ==
    IF r.panic THEN [f |-> Return(f, Panic), data |-> r.data]
    ELSE IF r.records # <<>>
    THEN handle_cname([f EXCEPT !.probes = Append(@, [kind |-> "CNAME", hit |-> TRUE]),
                                !.met = Some([rec |-> r.records[1], before |-> f.previous_cnames])],
                      r.data, t, r.records[1], <<>>)
    ELSE [f |-> [f EXCEPT !.pc = "nss",
                          !.probes = Append(@, [kind |-> "CNAME", hit |-> FALSE])],
          data |-> r.data]

\* query_nameservers_iteratively, head of the 'next_zone loop.
ZoneHead(f) ==
    IF f.next_nss = <<>> THEN Return(f, Panic)
    ELSE [f EXCEPT !.queue = Take(sort_nameservers(f.next_nss), max_ns_queried),
                   !.next_nss = <<>>, !.error = None, !.pc = "cand"]

\* perform_inner: the candidates found in the cache, or the root nameservers.
WithNss(f, r) ==
    [f |-> ZoneHead([f EXCEPT !.next_nss = IF r.nss = <<>> THEN root_zone_nameservers ELSE r.nss]),
     data |-> r.data]

\* perform_inner: the candidate set is filled when empty, and
\* query_nameservers_iteratively is entered.
FindNss(f, d, t) ==
    IF f.next_nss # <<>> THEN [f |-> ZoneHead(f), data |-> d]
    ELSE WithNss(f, search_nss_in_cache(d, t, f.searched_node))

\* query_nameservers_iteratively, head of the for loop: the next candidate is
\* taken; without an address it is resolved by a sub-lookup unless its zone
\* loops. With no candidate left the first error is returned.
Candidate(f) ==
    IF f.queue = <<>>
    THEN Return(f, IF f.error = None THEN Panic ELSE ErrResponse(f.error[1]))
    ELSE IF NsAddrs(Head(f.queue)) # <<>>
    THEN [f EXCEPT !.cur = Head(f.queue), !.queue = Tail(@), !.pc = "query"]
    ELSE IF detect_zones_loop(NsZone(Head(f.queue)), f.previous_zones)
    THEN [f EXCEPT !.queue = Tail(@), !.error = get_or_insert(@, "SubLookupErr")]
    ELSE [f EXCEPT !.cur = Head(f.queue), !.queue = Tail(@), !.pc = "sub"]

\* resolve_ns_subquery: the Lookup it builds for the current candidate.
SubLookup(f) ==
    Lookup(NsNode(f.cur), "A", Append(f.previous_zones, NsZone(f.cur)), TRUE)

\* resolve_ns_subquery and its caller once the sub-lookup returned res.
SubReturned(f, res) ==
    IF res.kind = "Panic" THEN Return(f, Panic)
    ELSE IF res.kind = "Err"
    THEN [f EXCEPT !.error = get_or_insert(@, "SubLookupErr"), !.pc = "cand"]
    ELSE [f EXCEPT !.cur.a_records = extract_records(res.answers, "A", NsNode(f.cur)).found,
                   !.pc = "query"]

\* The match of perform_inner and of query_nameservers_iteratively on the
\* NsResponse c (or the error) perform_request returned.
OnResponse(f, d, t, c) ==
    CASE c.kind = "Err" ->
            [f |-> [f EXCEPT !.error = get_or_insert(@, c.err), !.pc = "cand"], data |-> d]
      [] c.kind = "Delegation" ->
            [f |-> ZoneHead([f EXCEPT !.next_nss = c.next_nss, !.delegs = @ + 1,
                                      !.node_delegs = @ + 1]),
             data |-> save_nss_in_cache(d, t, c.next_nss)]
      [] c.kind = "Answer" ->
            [f |-> Return([f EXCEPT !.previous_cnames = <<>>],
                          OkResponse(f.previous_cnames \o c.answers, <<>>, c.additionals, FALSE)),
             data |-> save_records_in_cache(d, t, c.answers)]
      [] c.kind = "Alias" ->
            handle_cname([f EXCEPT !.met = Some([rec |-> c.cname_rec, before |-> f.previous_cnames])],
                         d, t, c.cname_rec, c.next_nss)
      [] OTHER ->
            [f |-> Return([f EXCEPT !.previous_cnames = <<>>],
                          OkResponse(f.previous_cnames, c.soa_rec, <<>>, TRUE)),
             data |-> d]

\* The query of the current candidate: out is what send_query_with_retries
\* returned, an error or a response. send_udp_packet unwraps the first address
\* of the candidate.
AfterQuery(f, d, t, out) ==
    IF NsAddrs(f.cur) = <<>> THEN [f |-> Return(f, Panic), data |-> d]
    ELSE IF out.kind = "Err"
    THEN [f |-> [f EXCEPT !.error = get_or_insert(@, out.err), !.pc = "cand", !.queried = TRUE],
          data |-> d]
    ELSE OnResponse([f EXCEPT !.queried = TRUE], d, t,
                    perform_request(out.resp, f.searched_node, f.searched_kind, NsZone(f.cur)))

\* ------------------------------------------------------------------ the resolver's environment

\* The number of lookups started.
MaxLookups == 2
\* The number of cache operations made by the lookups of other workers.
MaxOtherOps == 1

\* The nodes and the types looked up.
LookupNodes == {NameBA, NameA}
LookupKinds == {"A", "NS"}

\* The records upstream nameservers send.
RecA_BA == Rec(NameBA, "A", 2, <<10, 0, 0, 1>>)
RecA_N == Rec(NameN, "A", 1, <<10, 0, 0, 3>>)
RecCname_BA_A == Rec(NameBA, "CNAME", 1, NameA)
RecCname_A_BA == Rec(NameA, "CNAME", 1, NameBA)
RecCname_A_N == Rec(NameA, "CNAME", 1, NameN)
RecNs_A == Rec(NameA, "NS", 1, NameN)
RecNs_BA == Rec(NameBA, "NS", 2, NameN)
RecSoa_BA == Rec(NameBA, "SOA", 1, <<"soa">>)

\* A response of an upstream nameserver, decoded.
Response(resp_code, auth_answer, answers, authorities, additionals) ==
    [resp_code |-> resp_code, auth_answer |-> auth_answer, answers |-> answers,
     authorities |-> authorities, additionals |-> additionals]

\* The responses upstream nameservers send.
UpstreamResponses ==
    <<  Response("NoError", TRUE, <<RecA_BA>>, <<>>, <<>>),
        Response("NoError", TRUE, <<RecA_N>>, <<>>, <<>>),
        Response("NoError", TRUE, <<RecCname_BA_A>>, <<RecNs_A>>, <<RecA_N>>),
        Response("NoError", TRUE, <<RecCname_A_BA>>, <<>>, <<>>),
        Response("NoError", TRUE, <<RecCname_A_N>>, <<>>, <<>>),
        Response("NoError", FALSE, <<>>, <<RecNs_A, RecNs_BA>>, <<RecA_N>>),
        Response("NxDomain", TRUE, <<>>, <<RecSoa_BA>>, <<>>),
        Response("ServFail", FALSE, <<>>, <<>>, <<>>) >>

\* The records other lookups, running on other workers, save in the cache.
OtherSaves == << <<RecA_BA>>, <<RecCname_BA_A>> >>

NoHit == [key |-> <<>>]

\* A cache hit: the key, the expiry of the entry and the ttl stored in it, the
\* clock read before get_clone, the records returned, and the ttl returned by
\* the hit before this one when it was a hit of the same entry.
Hit(key, entry, before_get, records, last) ==
    [key |-> key, exp |-> entry.exp, stored |-> entry.val[1].ttl, before |-> before_get,
     records |-> records,
     prev |-> IF last # NoHit /\ last.key = key /\ last.exp = entry.exp
              THEN Some(last.ttl) ELSE None]

\* The last hit of any thread, after the hit h.
LastOf(h) == [key |-> h.key, exp |-> h.exp, ttl |-> h.records[1].ttl]

LookupInit ==
    /\ lk = <<>>
    /\ l_started = 0
    /\ l_result = NoResult
    /\ l_hit = NoHit
    /\ r_last = NoHit
    /\ o_ops = 0

Top == lk[Len(lk)]
Running == lk # <<>> /\ Top.result = NoResult

\* The handler makes a new Lookup for the question of a request and performs it.
StartLookup ==
    /\ lk = <<>>
    /\ l_started < MaxLookups
    /\ \E node \in LookupNodes, kind \in LookupKinds : lk' = <<new_lookup(node, kind)>>
    /\ l_started' = l_started + 1
    /\ l_result' = NoResult
    /\ UNCHANGED <<l_hit, r_last, o_ops>>
    /\ UNCHANGED <<now, data, sw_pc, sw_cleaned, g_pc, g_key, g_call, g_ret, zero_set>>
    /\ UNCHANGED <<handlerVars, poolVars, serverVars, callVars>>

\* The outer loop begins an iteration.
BeginIteration ==
    /\ Running /\ Top.pc = "loop"
    /\ lk' = [lk EXCEPT ![Len(lk)] = LoopHead(Top, now)]
    /\ UNCHANGED <<l_started, l_result, l_hit, r_last, o_ops>>
    /\ UNCHANGED <<now, data, sw_pc, sw_cleaned, g_pc, g_key, g_call, g_ret, zero_set>>
    /\ UNCHANGED <<handlerVars, poolVars, serverVars, callVars>>

\* The effect of a cache search of the lookup on the record of the hits.
NoteHit(key, r) ==
    IF r.records = <<>> THEN UNCHANGED <<l_hit, r_last>>
    ELSE /\ l_hit' = Hit(key, data[key], Top.before_get, r.records, r_last)
         /\ r_last' = LastOf(Hit(key, data[key], Top.before_get, r.records, r_last))

\* get_clone of the first cache search runs.
ProbeAnswersWith(r) ==
    /\ lk' = [lk EXCEPT ![Len(lk)] = AfterAnswersProbe(Top, r, now)]
    /\ data' = r.data
    /\ NoteHit(<<Top.searched_node, Top.searched_kind>>, r)

ProbeAnswers ==
    /\ Running /\ Top.pc = "answers"
    /\ ProbeAnswersWith(search_records_in_cache(data, Top.before_get, now,
                                                Top.searched_node, Top.searched_kind))
    /\ UNCHANGED <<l_started, l_result, o_ops>>
    /\ UNCHANGED <<now, sw_pc, sw_cleaned, g_pc, g_key, g_call, g_ret, zero_set>>
    /\ UNCHANGED <<handlerVars, poolVars, serverVars, callVars>>

\* The lookup and the map become those of x.
Becomes(x) ==
    /\ lk' = [lk EXCEPT ![Len(lk)] = x.f]
    /\ data' = x.data

\* get_clone of the second cache search runs.
ProbeCnamesWith(r) ==
    /\ Becomes(AfterCnamesProbe(Top, r, now))
    /\ NoteHit(<<Top.searched_node, "CNAME">>, r)

ProbeCnames ==
    /\ Running /\ Top.pc = "cnames"
    /\ ProbeCnamesWith(search_records_in_cache(data, Top.before_get, now,
                                               Top.searched_node, "CNAME"))
    /\ UNCHANGED <<l_started, l_result, o_ops>>
    /\ UNCHANGED <<now, sw_pc, sw_cleaned, g_pc, g_key, g_call, g_ret, zero_set>>
    /\ UNCHANGED <<handlerVars, poolVars, serverVars, callVars>>

\* The candidate nameservers are chosen.
ChooseNameservers ==
    /\ Running /\ Top.pc = "nss"
    /\ Becomes(FindNss(Top, data, now))
    /\ UNCHANGED <<l_started, l_result, l_hit, r_last, o_ops>>
    /\ UNCHANGED <<now, sw_pc, sw_cleaned, g_pc, g_key, g_call, g_ret, zero_set>>
    /\ UNCHANGED <<handlerVars, poolVars, serverVars, callVars>>

\* The next candidate is taken; a sub-lookup is started for one without address.
PushSub(f) == IF f.pc = "sub" THEN <<SubLookup(f)>> ELSE <<>>

NextCandidate ==
    /\ Running /\ Top.pc = "cand"
    /\ lk' = [lk EXCEPT ![Len(lk)] = Candidate(Top)] \o PushSub(Candidate(Top))
    /\ UNCHANGED <<l_started, l_result, l_hit, r_last, o_ops>>
    /\ UNCHANGED <<now, data, sw_pc, sw_cleaned, g_pc, g_key, g_call, g_ret, zero_set>>
    /\ UNCHANGED <<handlerVars, poolVars, serverVars, callVars>>

\* A sub-lookup returned to resolve_ns_subquery.
SubLookupReturns ==
    /\ Len(lk) >= 2 /\ Top.result # NoResult
    /\ lk' = [SubSeq(lk, 1, Len(lk) - 1) EXCEPT ![Len(lk) - 1] = SubReturned(lk[Len(lk) - 1], Top.result)]
    /\ UNCHANGED <<l_started, l_result, l_hit, r_last, o_ops>>
    /\ UNCHANGED <<now, data, sw_pc, sw_cleaned, g_pc, g_key, g_call, g_ret, zero_set>>
    /\ UNCHANGED <<handlerVars, poolVars, serverVars, callVars>>

\* The current candidate is queried: send_query_with_retries returns an error
\* (an IO error or a malformed response on every attempt) or a response, which
\* is handled.
QueryAnsweredWith(responses) ==
    /\ Running /\ Top.pc = "query"
    /\ \/ Becomes(AfterQuery(Top, data, now, [kind |-> "Err", err |-> "IO"]))
       \/ \E i \in DOMAIN responses :
             Becomes(AfterQuery(Top, data, now, [kind |-> "Ok", resp |-> responses[i]]))
    /\ UNCHANGED <<l_started, l_result, l_hit, r_last, o_ops>>
    /\ UNCHANGED <<now, sw_pc, sw_cleaned, g_pc, g_key, g_call, g_ret, zero_set>>
    /\ UNCHANGED <<handlerVars, poolVars, serverVars, callVars>>

Query == QueryAnsweredWith(UpstreamResponses)

\* The responses of upstream nameservers that delegate to nameservers whose
\* names are in each other's zones: a. is served by n., n. by b.a.
RecNs_N_BA == Rec(NameN, "NS", 1, NameBA)
DelegatingResponses ==
    <<  Response("NoError", FALSE, <<>>, <<RecNs_A>>, <<>>),
        Response("NoError", FALSE, <<>>, <<RecNs_N_BA>>, <<>>),
        Response("NoError", TRUE, <<RecA_N>>, <<>>, <<>>),
        Response("NoError", TRUE, <<RecA_BA>>, <<>>, <<>>) >>

\* The current candidate is queried, the upstream nameservers delegating.
QueryDelegating == QueryAnsweredWith(DelegatingResponses)

\* perform returned to the handler.
LookupReturns ==
    /\ Len(lk) = 1 /\ Top.result # NoResult
    /\ l_result' = Top
    /\ lk' = <<>>
    /\ UNCHANGED <<l_started, l_hit, r_last, o_ops>>
    /\ UNCHANGED <<now, data, sw_pc, sw_cleaned, g_pc, g_key, g_call, g_ret, zero_set>>
    /\ UNCHANGED <<handlerVars, poolVars, serverVars, callVars>>

\* A lookup of another worker saves records in the cache.
ConcurrentSave ==
    /\ o_ops < MaxOtherOps
    /\ o_ops' = o_ops + 1
    /\ \E i \in DOMAIN OtherSaves : data' = save_records_in_cache(data, now, OtherSaves[i])
    /\ UNCHANGED <<lk, l_started, l_result, l_hit, r_last>>
    /\ UNCHANGED <<now, sw_pc, sw_cleaned, g_pc, g_key, g_call, g_ret, zero_set>>
    /\ UNCHANGED <<handlerVars, poolVars, serverVars, callVars>>

\* The effect of a cache search of another worker.
OtherSearch(key, r) ==
    /\ data' = r.data
    /\ r_last' = IF r.records = <<>> THEN r_last
                 ELSE [key |-> key, exp |-> data[key].exp, ttl |-> r.records[1].ttl]

\* A lookup of another worker searches the cache.
ConcurrentSearch ==
    /\ o_ops < MaxOtherOps
    /\ o_ops' = o_ops + 1
    /\ \E key \in DOMAIN data :
          OtherSearch(key, search_records_in_cache(data, now, now, key[1], key[2]))
    /\ UNCHANGED <<lk, l_started, l_result, l_hit>>
    /\ UNCHANGED <<now, sw_pc, sw_cleaned, g_pc, g_key, g_call, g_ret, zero_set>>
    /\ UNCHANGED <<handlerVars, poolVars, serverVars, callVars>>

\* ------------------------------------------------------------------ shared::net::setup

\* The datagrams and connections clients send to the servers.
MaxClients == 2

Servers == {"udp", "tcp"}

\* start_servers: the two server threads are spawned, the coordinator waits.
ServersInit ==
    /\ s_pc = [s \in Servers |-> "bind"]
    /\ s_bound = [s \in Servers |-> FALSE]
    /\ s_pending = [s \in Servers |-> 0]
    /\ stop = FALSE
    /\ c_pc = "wait1"
    /\ c_got = 0
    /\ tx_sent = 0
    /\ clients = 0

\* start_udp_server / start_tcp_server: the socket is bound; when that fails
\* the function returns.
Bind(s) ==
    /\ s_pc[s] = "bind"
    /\ \E ok \in BOOLEAN :
          /\ s_bound' = [s_bound EXCEPT ![s] = ok]
          /\ s_pc' = [s_pc EXCEPT ![s] = IF ok THEN "blocked" ELSE "notify"]
    /\ UNCHANGED <<s_pending, stop, c_pc, c_got, tx_sent, clients>>
    /\ UNCHANGED <<handlerVars, cacheVars, poolVars, lookupVars, callVars>>

\* recv_from / accept returns: it blocks until something waits on the socket.
Unblock(s) ==
    /\ s_pc[s] = "blocked"
    /\ s_pending[s] > 0
    /\ s_pending' = [s_pending EXCEPT ![s] = @ - 1]
    /\ s_pc' = [s_pc EXCEPT ![s] = "check"]
    /\ UNCHANGED <<s_bound, stop, c_pc, c_got, tx_sent, clients>>
    /\ UNCHANGED <<handlerVars, cacheVars, poolVars, lookupVars, callVars>>

\* The stop flag is loaded: when set the pool is dropped and the function
\* returns, closing the socket; otherwise the job is handed to the pool and
\* the loop goes back to the blocking call.
CheckStop(s) ==
    /\ s_pc[s] = "check"
    /\ IF stop
       THEN /\ s_pc' = [s_pc EXCEPT ![s] = "notify"]
            /\ s_bound' = [s_bound EXCEPT ![s] = FALSE]
            /\ s_pending' = [s_pending EXCEPT ![s] = 0]
       ELSE /\ s_pc' = [s_pc EXCEPT ![s] = "blocked"]
            /\ UNCHANGED <<s_bound, s_pending>>
    /\ UNCHANGED <<stop, c_pc, c_got, tx_sent, clients>>
    /\ UNCHANGED <<handlerVars, cacheVars, poolVars, lookupVars, callVars>>

\* The spawned closure after the server function returned: tx_clone.send(()).
\* The send fails, the receiver being gone, when the coordinator has ended.
Notify(s) ==
    /\ s_pc[s] = "notify"
    /\ s_pc' = [s_pc EXCEPT ![s] = "exited"]
    /\ tx_sent' = IF c_pc \in {"done", "panicked"} THEN tx_sent ELSE tx_sent + 1
    /\ UNCHANGED <<s_bound, s_pending, stop, c_pc, c_got, clients>>
    /\ UNCHANGED <<handlerVars, cacheVars, poolVars, lookupVars, callVars>>

\* A client sends a datagram to, or connects to, a bound socket.
ClientSends(s) ==
    /\ s_bound[s]
    /\ clients < MaxClients
    /\ clients' = clients + 1
    /\ s_pending' = [s_pending EXCEPT ![s] = @ + 1]
    /\ UNCHANGED <<s_pc, s_bound, stop, c_pc, c_got, tx_sent>>
    /\ UNCHANGED <<handlerVars, cacheVars, poolVars, lookupVars, callVars>>

\* start_servers: rx.recv().unwrap(), the first notification.
CoordRecvFirst ==
    /\ c_pc = "wait1"
    /\ tx_sent > 0
    /\ tx_sent' = tx_sent - 1
    /\ c_got' = 1
    /\ c_pc' = "store"
    /\ UNCHANGED <<s_pc, s_bound, s_pending, stop, clients>>
    /\ UNCHANGED <<handlerVars, cacheVars, poolVars, lookupVars, callVars>>

\* start_servers: stop.store(true).
CoordStore ==
    /\ c_pc = "store"
    /\ stop' = TRUE
    /\ c_pc' = "kick_udp"
    /\ UNCHANGED <<s_pc, s_bound, s_pending, c_got, tx_sent, clients>>
    /\ UNCHANGED <<handlerVars, cacheVars, poolVars, lookupVars, callVars>>

\* wake_up_servers, first half: a local socket is bound (on failure the
\* function returns) and one datagram is sent to the address of the UDP
\* server; it is queued only when a socket is bound there.
CoordKickUdp ==
    /\ c_pc = "kick_udp"
    /\ \E ok \in BOOLEAN :
          IF ok
          THEN /\ c_pc' = "kick_tcp"
               /\ s_pending' = [s_pending EXCEPT !["udp"] = IF s_bound["udp"] THEN @ + 1 ELSE @]
          ELSE /\ c_pc' = "wait2"
               /\ UNCHANGED s_pending
    /\ UNCHANGED <<s_pc, s_bound, stop, c_got, tx_sent, clients>>
    /\ UNCHANGED <<handlerVars, cacheVars, poolVars, lookupVars, callVars>>

\* wake_up_servers, second half: connect to the address of the TCP server;
\* the connection is refused when no listener is bound there.
CoordKickTcp ==
    /\ c_pc = "kick_tcp"
    /\ c_pc' = "wait2"
    /\ s_pending' = [s_pending EXCEPT !["tcp"] = IF s_bound["tcp"] THEN @ + 1 ELSE @]
    /\ UNCHANGED <<s_pc, s_bound, stop, c_got, tx_sent, clients>>
    /\ UNCHANGED <<handlerVars, cacheVars, poolVars, lookupVars, callVars>>

\* start_servers: rx.recv_timeout(4 s).unwrap(), a notification arrived.
CoordRecvSecond ==
    /\ c_pc = "wait2"
    /\ tx_sent > 0
    /\ tx_sent' = tx_sent - 1
    /\ c_got' = 2
    /\ c_pc' = "done"
    /\ UNCHANGED <<s_pc, s_bound, s_pending, stop, clients>>
    /\ UNCHANGED <<handlerVars, cacheVars, poolVars, lookupVars, callVars>>

\* start_servers: rx.recv_timeout(4 s).unwrap(), the timeout elapsed and the
\* unwrap panics. The four seconds are taken to elapse only while the other
\* server thread is blocked on its socket with nothing waiting.
CoordTimeout ==
    /\ c_pc = "wait2"
    /\ tx_sent = 0
    /\ \A s \in Servers : s_pc[s] = "exited" \/ (s_pc[s] = "blocked" /\ s_pending[s] = 0)
    /\ c_pc' = "panicked"
    /\ UNCHANGED <<s_pc, s_bound, s_pending, stop, c_got, tx_sent, clients>>
    /\ UNCHANGED <<handlerVars, cacheVars, poolVars, lookupVars, callVars>>

\* ------------------------------------------------------------------ dns::name (zones)

\* str::split('.'): the pieces between the dots, the last one being empty
\* for a name that ends with a dot.
RECURSIVE SplitFrom(_, _, _, _)
SplitFrom(s, i, cur, acc) ==
    IF i > Len(s) THEN Append(acc, cur)
    ELSE IF s[i] = "." THEN SplitFrom(s, i + 1, <<>>, Append(acc, cur))
    ELSE SplitFrom(s, i + 1, Append(cur, s[i]), acc)

\* str::rsplit('.'): the same pieces, last first.
RSplit(s) ==
    LET p == SplitFrom(s, 1, <<>>, <<>>) IN [i \in 1..Len(p) |-> p[Len(p) + 1 - i]]

\* Name::is_in_zone, on the pieces of the name and of the zone.
LabelsInZone(nl, zl) ==
    /\ Len(zl) <= Len(nl)
    /\ \A i \in 1..Len(zl) : nl[i] = zl[i]

\* Name::is_in_zone
is_in_zone(name, zone) == LabelsInZone(RSplit(name), RSplit(zone))

\* ------------------------------------------------------------------ nameserver::zones (Zone)

\* Zone: the top node and the records in the order of their insertion.
Zone(top, records) == [zone |-> top, records |-> records]

\* Zone::get: the records of the node and type, in order; <<>> stands for None.
RECURSIVE ZoneGetFrom(_, _, _, _, _)
ZoneGetFrom(z, node, kind, i, acc) ==
    IF i > Len(z.records) THEN acc
    ELSE ZoneGetFrom(z, node, kind, i + 1,
            IF z.records[i].record_type = kind /\ z.records[i].node = node
            THEN Append(acc, z.records[i]) ELSE acc)

ZoneGet(z, node, kind) == ZoneGetFrom(z, node, kind, 1, <<>>)

\* ------------------------------------------------------------------ nameserver::handler

\* resp_header_from_req_header of the nameserver.
ns_resp_header(req_header, resp_code) ==
    [req_header EXCEPT !.query_resp = TRUE,
                       !.auth_answer = FALSE,
                       !.recursion_available = FALSE,
                       !.z = 0,
                       !.resp_code = resp_code]

\* A response message.
NsMessage(h, questions, answers, authorities, additionals) ==
    [header |-> h, questions |-> questions, answers |-> answers,
     authorities |-> authorities, additionals |-> additionals]

\* handle_err
ns_handle_err(dns_req, resp_code) ==
    NsMessage([ns_resp_header(dns_req.header, resp_code) EXCEPT
                    !.auth_answer = TRUE, !.answers_count = 0,
                    !.authorities_count = 0, !.additionals_count = 0],
              dns_req.questions, <<>>, <<>>, <<>>)

\* handle_nx_err
ns_handle_nx_err(dns_req, soa_record) ==
    NsMessage([ns_resp_header(dns_req.header, "NxDomain") EXCEPT
                    !.auth_answer = TRUE, !.answers_count = 0,
                    !.authorities_count = 1, !.additionals_count = 0],
              dns_req.questions, <<>>, <<soa_record>>, <<>>)

\* handle_decode_err, the header alone having been decoded.
ns_handle_decode_err(req_header, parsing_err) ==
    NsMessage(ns_resp_header(req_header,
                    IF parsing_err \in {"UnsupportedOpCode", "UnsupportedClass", "UnsupportedType"}
                    THEN "NotImp" ELSE "FormErr"),
              <<>>, <<>>, <<>>, <<>>)

\* search_a_additionals_for_subzone_ns: the A records of the name in every
\* sub-zone that contains it, in the order of the sub-zones.
RECURSIVE search_a_additionals_for_subzone_ns(_, _, _)
search_a_additionals_for_subzone_ns(ns_name, sub_zones, i) ==
    IF i > Len(sub_zones) THEN <<>>
    ELSE (IF is_in_zone(ns_name, sub_zones[i].zone)
          THEN ZoneGet(sub_zones[i], ns_name, "A") ELSE <<>>)
         \o search_a_additionals_for_subzone_ns(ns_name, sub_zones, i + 1)

\* The glue of the first NS record only.
SubzoneGlueOfFirst(ns_records, sub_zones, i) ==
    IF i > Len(ns_records) THEN <<>>
    ELSE search_a_additionals_for_subzone_ns(ns_records[i].data, sub_zones, 1)

\* The loop of handle_subzone: the glue of every NS record, in order.
RECURSIVE SubzoneGlue(_, _, _)
SubzoneGlue(ns_records, sub_zones, i) ==
    IF i > Len(ns_records) THEN <<>>
    ELSE search_a_additionals_for_subzone_ns(ns_records[i].data, sub_zones, 1)
         \o SubzoneGlue(ns_records, sub_zones, i + 1)

\* The reply of handle_subzone, given the NS records and the glue.
SubzoneReply(request, authorities, additionals) ==
    NsMessage([ns_resp_header(request.header, "NoError") EXCEPT
                    !.auth_answer = FALSE, !.questions_count = 1, !.answers_count = 0,
                    !.authorities_count = Len(authorities),
                    !.additionals_count = Len(additionals)],
              request.questions, <<>>, authorities, additionals)

\* handle_subzone: the unwrap and the assert panic on a sub-zone without NS
\* records at its top.
handle_subzone(request, sub_zone, zones) ==
    IF ZoneGet(sub_zone, sub_zone.zone, "NS") = <<>> THEN [do |-> "panic"]
    ELSE [do |-> "reply", by |-> "handle_subzone",
          msg |-> SubzoneReply(request, ZoneGet(sub_zone, sub_zone.zone, "NS"),
                      SubzoneGlue(ZoneGet(sub_zone, sub_zone.zone, "NS"), zones.sub_zones, 1))]

\* The authoritative reply of handle_auth_zone with the records found.
AuthReply(request, searched_records) ==
    NsMessage([ns_resp_header(request.header, "NoError") EXCEPT
                    !.auth_answer = TRUE, !.questions_count = 1,
                    !.answers_count = Len(searched_records),
                    !.authorities_count = 0, !.additionals_count = 0],
              request.questions, searched_records, <<>>, <<>>)

\* handle_auth_zone: the records of the type, else the CNAME, else the SOA of
\* the zone (the unwraps panic on a zone without SOA).
handle_auth_zone(request, auth_zone, node, record_type) ==
    IF ZoneGet(auth_zone, node, record_type) # <<>>
    THEN [do |-> "reply", by |-> "handle_auth_zone",
          msg |-> AuthReply(request, ZoneGet(auth_zone, node, record_type))]
    ELSE IF ZoneGet(auth_zone, node, "CNAME") # <<>>
    THEN [do |-> "reply", by |-> "handle_auth_zone",
          msg |-> AuthReply(request, ZoneGet(auth_zone, node, "CNAME"))]
    ELSE IF ZoneGet(auth_zone, auth_zone.zone, "SOA") = <<>> THEN [do |-> "panic"]
    ELSE [do |-> "reply", by |-> "handle_nx_err",
          msg |-> ns_handle_nx_err(request, ZoneGet(auth_zone, auth_zone.zone, "SOA")[1])]

\* The first sub-zone, in order, that contains the node; 0 when none does.
FirstSubzone(node, sub_zones) ==
    IF \E i \in DOMAIN sub_zones : is_in_zone(node, sub_zones[i].zone)
    THEN CHOOSE i \in DOMAIN sub_zones :
            /\ is_in_zone(node, sub_zones[i].zone)
            /\ \A j \in 1..(i - 1) : ~is_in_zone(node, sub_zones[j].zone)
    ELSE 0

\* handle_query of the nameserver: questions[0] is read, which panics on an
\* empty question section.
ns_handle_query(request, zones) ==
    IF request.questions = <<>> THEN [do |-> "panic"]
    ELSE IF ~is_in_zone(request.questions[1].node, zones.auth_zone.zone)
    THEN [do |-> "reply", by |-> "handle_err", msg |-> ns_handle_err(request, "Refused")]
    ELSE IF FirstSubzone(request.questions[1].node, zones.sub_zones) # 0
    THEN handle_subzone(request,
            zones.sub_zones[FirstSubzone(request.questions[1].node, zones.sub_zones)], zones)
    ELSE handle_auth_zone(request, zones.auth_zone,
            request.questions[1].node, request.questions[1].record_type)

\* handle_dns_request after the bytes were read: req is the outcome of
\* Message::decode_from_bytes, h of Header::decode_from_bytes on the same bytes.
\* After validation questions[0] is read for the log line.
ns_decision(req, h, zones) ==
    IF ~req.ok
    THEN IF h.ok
         THEN [do |-> "reply", by |-> "handle_decode_err",
               msg |-> ns_handle_decode_err(h.val, inner_err(req.err))]
         ELSE [do |-> "drop"]
    ELSE IF ~validate_dns_request(req.val)
    THEN [do |-> "reply", by |-> "handle_err", msg |-> ns_handle_err(req.val, "FormErr")]
    ELSE ns_handle_query(req.val, zones)

\* reply of the nameserver: encode_to_bytes().unwrap(), then the bytes are
\* written. What the client gets, and whether the job panicked.
ns_reply(d) ==
    IF d.do = "reply" THEN WriteEncoded(MessageEncodeToBytes(d.msg))
    ELSE Outcome(<<>>, d.do = "panic")

\* handle_dns_request: the decision taken and what came of it.
handle_dns_request(w, zones) ==
    [decision |-> ns_decision(MessageDecodeFromBytes(w), HeaderDecodeFromBuf(w.header), zones),
     out |-> ns_reply(ns_decision(MessageDecodeFromBytes(w), HeaderDecodeFromBuf(w.header), zones))]

\* ------------------------------------------------------------------ dns::name (wire form)

MAX_REDIR == 15
LastU16 == 65535

\* The ASCII characters of the model and their codes; every other byte the
\* model reads is not an ASCII letter or digit and stands as "?".
AsciiChars == <<"-", ".", "0", "1", "a", "b", "c", "m", "n", "s", "t", "x">>
AsciiCodes == <<45, 46, 48, 49, 97, 98, 99, 109, 110, 115, 116, 120>>

as_bytes(s) == [i \in 1..Len(s) |-> AsciiCodes[CHOOSE k \in DOMAIN AsciiChars : AsciiChars[k] = s[i]]]

CharOf(b) ==
    IF \E k \in DOMAIN AsciiCodes : AsciiCodes[k] = b
    THEN AsciiChars[CHOOSE k \in DOMAIN AsciiCodes : AsciiCodes[k] = b]
    ELSE "?"

\* str::from_utf8: the bytes the model reads hold no continuation byte
\* (0x80..0xBF), so that a sequence is UTF-8 exactly when it is ASCII.
from_utf8(bytes) ==
    IF \E i \in DOMAIN bytes : bytes[i] >= 128 THEN Err("not UTF-8")
    ELSE Ok([i \in DOMAIN bytes |-> CharOf(bytes[i])])

is_ascii_alphanumeric(ch) == ch \notin {"-", ".", "?"}

\* validate_label
validate_label(label) ==
    IF Len(label) = 0 THEN Err("MalformedLabel")
    ELSE IF ~is_ascii_alphanumeric(label[1]) THEN Err("MalformedLabel")
    ELSE IF ~is_ascii_alphanumeric(label[Len(label)]) THEN Err("MalformedLabel")
    ELSE IF ~(\A i \in DOMAIN label : is_ascii_alphanumeric(label[i]) \/ label[i] = "-")
    THEN Err("MalformedLabel")
    ELSE Ok(<<>>)

\* validate_name
validate_name(name) ==
    IF name = <<".">> THEN Ok(<<>>)
    ELSE IF Len(name) > 255 THEN Err("LongName")
    ELSE IF name = <<>> \/ name[Len(name)] # "." THEN Err("RelativeName")
    ELSE IF name[1] = "." THEN Err("MalformedName")
    ELSE IF \E i \in 1..(Len(name) - 1) : name[i] = "." /\ name[i + 1] = "." THEN Err("MalformedName")
    ELSE LET labels == SplitFrom(SubSeq(name, 1, Len(name) - 1), 1, <<>>, <<>>) IN
         IF \E i \in DOMAIN labels : ~validate_label(labels[i]).ok
         THEN Err("MalformedLabel")
         ELSE Ok(<<>>)

\* Name::to_bytes: every piece of split('.') with its length before it.
RECURSIVE LabelsToBytes(_, _)
LabelsToBytes(pieces, i) ==
    IF i > Len(pieces) THEN <<>>
    ELSE <<Len(pieces[i])>> \o as_bytes(pieces[i]) \o LabelsToBytes(pieces, i + 1)

to_bytes(name) == LabelsToBytes(SplitFrom(name, 1, <<>>, <<>>), 1)

\* BitsBuffer: the bytes and the read position in bits.
BufLast(buf) == Len(buf) * 8

\* BitsBuffer::read_bits(8): the eight bits from the position on, which span
\* two bytes when the position is not at the start of a byte.
Pow2(n) == IF n = 0 THEN 1 ELSE IF n = 1 THEN 2 ELSE IF n = 2 THEN 4 ELSE IF n = 3 THEN 8
           ELSE IF n = 4 THEN 16 ELSE IF n = 5 THEN 32 ELSE IF n = 6 THEN 64 ELSE 128

ByteAt(buf, pos) ==
    IF pos % 8 = 0 THEN buf[(pos \div 8) + 1]
    ELSE (buf[(pos \div 8) + 1] % Pow2(8 - (pos % 8))) * Pow2(pos % 8)
            + (buf[(pos \div 8) + 2] \div Pow2(8 - (pos % 8)))

\* The locals of Name::from_bytes at the head of its loop.
NameStart(pos) ==
    [pc |-> "loop", pos |-> pos, name_bytes |-> <<>>, pos_after_jump |-> 0, n_jumps |-> 0,
     len_byte |-> 0, res |-> <<>>]

NameFails(st, pos, e) == [st EXCEPT !.pc = "done", !.pos = pos, !.res = Err(e)]
NamePanics(st, pos) == [st EXCEPT !.pc = "panicked", !.pos = pos]

\* The pointer arm: the jump position is a u16 and its product by 8
\* overflows from 8192 on, which panics in a build with overflow checks and
\* wraps in a build without; set_read_pos panics beyond the end of the buffer.
NamePointer(buf, st, len_byte, checked) ==
    LET pos1 == st.pos + 8
        after == IF st.n_jumps = 0 THEN pos1 + 8 ELSE st.pos_after_jump
        jump_pos == (len_byte * 256 + ByteAt(buf, pos1)) % 16384
        jump_bits == (jump_pos * 8) % (LastU16 + 1)
    IN  IF st.n_jumps > MAX_REDIR THEN NameFails(st, pos1, "MaxRedir")
        ELSE IF pos1 + 8 > BufLast(buf)
        THEN NameFails([st EXCEPT !.pos_after_jump = after], pos1, "BytesEnd")
        ELSE IF jump_pos * 8 > LastU16 /\ checked
        THEN NamePanics([st EXCEPT !.pos_after_jump = after], pos1 + 8)
        ELSE IF jump_bits > BufLast(buf)
        THEN NamePanics([st EXCEPT !.pos_after_jump = after], pos1 + 8)
        ELSE [st EXCEPT !.pos = jump_bits, !.pos_after_jump = after, !.n_jumps = @ + 1]

\* The label arm.
NameLabel(buf, st, len_byte) ==
    LET pos1 == st.pos + 8
        dotted == IF st.name_bytes = <<>> THEN <<>> ELSE Append(st.name_bytes, 46)
        label == [i \in 1..len_byte |-> ByteAt(buf, pos1 + 8 * (i - 1))]
    IN  IF len_byte > 63 THEN NameFails(st, pos1, "LongLabel")
        ELSE IF len_byte = 0
        THEN [st EXCEPT !.pc = "after", !.pos = pos1, !.name_bytes = Append(@, 46)]
        ELSE IF pos1 + len_byte * 8 > BufLast(buf)
        THEN NameFails([st EXCEPT !.name_bytes = dotted], pos1, "BytesEnd")
        ELSE IF Len(dotted) + len_byte > 255
        THEN NameFails([st EXCEPT !.name_bytes = dotted \o label], pos1 + len_byte * 8, "LongName")
        ELSE [st EXCEPT !.pos = pos1 + len_byte * 8, !.name_bytes = dotted \o label]

\* One turn of the loop of Name::from_bytes.
NameLoop(buf, st, checked) ==
    IF st.pos + 8 > BufLast(buf) THEN NameFails(st, st.pos, "BytesEnd")
    ELSE LET len_byte == ByteAt(buf, st.pos)
             read == [st EXCEPT !.len_byte = len_byte]
         IN  IF len_byte \div 64 = 3 THEN NamePointer(buf, read, len_byte, checked)
             ELSE IF len_byte \div 64 = 0 THEN NameLabel(buf, read, len_byte)
             ELSE NameFails(read, st.pos + 8, "MalformedLabel")

\* Name::from_bytes after the loop: the read position goes back behind the
\* first pointer, the bytes are validated.
NameAfter(st) ==
    LET pos == IF st.pos_after_jump > 0 THEN st.pos_after_jump ELSE st.pos
        str == from_utf8(st.name_bytes)
    IN  IF ~str.ok THEN NameFails(st, pos, "MalformedName")
        ELSE IF ~validate_name(str.val).ok THEN NameFails(st, pos, validate_name(str.val).err)
        ELSE [st EXCEPT !.pc = "done", !.pos = pos, !.res = Ok(str.val)]

\* Name::from_bytes, run to its end.
RECURSIVE NameRun(_, _, _)
NameRun(buf, st, checked) ==
    IF st.pc = "loop" THEN NameRun(buf, NameLoop(buf, st, checked), checked)
    ELSE IF st.pc = "after" THEN NameAfter(st)
    ELSE st

from_bytes(buf, pos, checked) == NameRun(buf, NameStart(pos), checked)

\* ------------------------------------------------------------------ dns::records (wire form)

\* BitsBuffer::write_u16, write_u32: the bytes written, high byte first.
U16Bytes(n) == <<(n \div 256) % 256, n % 256>>
U32Bytes(n) == <<(n \div 16777216) % 256, (n \div 65536) % 256, (n \div 256) % 256, n % 256>>

\* What a read gives: the value and the read position after it, or the
\* error and the read position it left; a panic is the error "panic", a
\* loop without end the error "diverges".
Got(v, pos) == [ok |-> TRUE, val |-> v, pos |-> pos]
Fail(e, pos) == [ok |-> FALSE, err |-> e, pos |-> pos]

\* The ? operator on the result of a read: an error is returned at once, a
\* value goes on to the rest of the function.
Then(r, F(_)) == IF ~r.ok THEN r ELSE F(r)

\* BitsBuffer::read_u8, read_u16, read_u32, read_bytes, read_bytes_vec
read_bytes_vec(buf, pos, n) ==
    IF pos + n * 8 > BufLast(buf) THEN Fail("BytesEnd", pos)
    ELSE Got([i \in 1..n |-> ByteAt(buf, pos + 8 * (i - 1))], pos + n * 8)

read_u8(buf, pos) ==
    IF pos + 8 > BufLast(buf) THEN Fail("BytesEnd", pos) ELSE Got(ByteAt(buf, pos), pos + 8)

read_u16(buf, pos) ==
    IF pos + 16 > BufLast(buf) THEN Fail("BytesEnd", pos)
    ELSE Got(ByteAt(buf, pos) * 256 + ByteAt(buf, pos + 8), pos + 16)

read_u32(buf, pos) ==
    IF pos + 32 > BufLast(buf) THEN Fail("BytesEnd", pos)
    ELSE Got(ByteAt(buf, pos) * 16777216 + ByteAt(buf, pos + 8) * 65536
                + ByteAt(buf, pos + 16) * 256 + ByteAt(buf, pos + 24), pos + 32)

\* Name::from_bytes as the record decoders use it (From<NameErr> for ParsingErr).
NameResult(st) ==
    IF st.pc = "panicked" THEN Fail("panic", st.pos)
    ELSE IF st.res.ok THEN Got(st.res.val, st.pos)
    ELSE Fail(IF st.res.err = "BytesEnd" THEN "BytesEnd" ELSE "DomainNameErr", st.pos)

NameRead(buf, pos, checked) == NameResult(from_bytes(buf, pos, checked))

\* decode_character_string
decode_character_string(buf, pos) ==
    Then(read_u8(buf, pos), LAMBDA len_byte :
    Then(read_bytes_vec(buf, len_byte.pos, len_byte.val), LAMBDA str_bytes :
    IF ~from_utf8(str_bytes.val).ok THEN Fail("StringCharErr", str_bytes.pos)
    ELSE Got(from_utf8(str_bytes.val).val, str_bytes.pos)))

\* encode_character_string
encode_character_string(string) ==
    IF Len(string) > 255 THEN Err("StringCharErr") ELSE Ok(<<Len(string)>> \o as_bytes(string))

\* The test after - before != (data_len * 8) as usize of the data decoders:
\* the product is a u16, which panics or wraps from 8192 on.
DataLenChecked(r, before, data_len, checked) ==
    IF ~r.ok THEN r
    ELSE IF data_len * 8 > LastU16 /\ checked THEN Fail("panic", r.pos)
    ELSE IF r.pos - before # (data_len * 8) % (LastU16 + 1) THEN Fail("DataLenMismatch", r.pos)
    ELSE r

\* decode_a_data
decode_a_data(buf, pos, data_len) ==
    IF data_len # 4 THEN Fail("DataLenMismatch", pos) ELSE read_bytes_vec(buf, pos, 4)

\* decode_ns_data, decode_cname_data, decode_ptr_data
decode_ns_data(buf, pos, data_len, checked) ==
    DataLenChecked(NameRead(buf, pos, checked), pos, data_len, checked)

\* decode_soa_data
SoaNumbers(buf, pos) ==
    LET bytes == read_bytes_vec(buf, pos, 20) IN
    IF ~bytes.ok
    THEN Fail("BytesEnd", pos + 32 * ((BufLast(buf) - pos) \div 32))
    ELSE Got([i \in 1..5 |-> read_u32(buf, pos + 32 * (i - 1)).val], bytes.pos)

decode_soa_data(buf, pos, data_len, checked) ==
    Then(NameRead(buf, pos, checked), LAMBDA mname :
    Then(NameRead(buf, mname.pos, checked), LAMBDA rname :
    Then(SoaNumbers(buf, rname.pos), LAMBDA nums :
    DataLenChecked(
        Got([ns_name |-> mname.val, ml_name |-> rname.val, serial |-> nums.val[1],
             refresh |-> nums.val[2], retry |-> nums.val[3],
             expire |-> nums.val[4], minimum |-> nums.val[5]], nums.pos),
        pos, data_len, checked))))

\* parse_wks_ports: for a byte that is not zero the loop for j in 1.. has no
\* exit; byte << j overflows at j = 8, which panics in a build with overflow
\* checks and goes on for ever in a build without.
parse_wks_ports(ports_bytes, pos, checked) ==
    IF \A i \in DOMAIN ports_bytes : ports_bytes[i] = 0 THEN Got(<<>>, pos)
    ELSE IF checked THEN Fail("panic", pos)
    ELSE Fail("diverges", pos)

\* decode_wks_data
decode_wks_data(buf, pos, data_len, checked) ==
    Then(read_bytes_vec(buf, pos, 4), LAMBDA address :
    Then(read_u8(buf, address.pos), LAMBDA protocol :
    IF data_len > 5 /\ ~read_bytes_vec(buf, protocol.pos, data_len - 5).ok
    THEN Fail("panic", protocol.pos)
    ELSE Then(IF data_len > 5 THEN read_bytes_vec(buf, protocol.pos, data_len - 5)
              ELSE Got(<<>>, protocol.pos), LAMBDA ports_bytes :
         Then(parse_wks_ports(ports_bytes.val, ports_bytes.pos, checked), LAMBDA ports :
         Got([address |-> address.val, protocol |-> protocol.val, ports |-> ports.val],
             ports.pos)))))

\* decode_hinfo_data
decode_hinfo_data(buf, pos, data_len, checked) ==
    Then(decode_character_string(buf, pos), LAMBDA cpu :
    Then(decode_character_string(buf, cpu.pos), LAMBDA os :
    DataLenChecked(Got([cpu |-> cpu.val, os |-> os.val], os.pos), pos, data_len, checked)))

\* decode_mx_data
decode_mx_data(buf, pos, data_len, checked) ==
    Then(read_u16(buf, pos), LAMBDA preference :
    Then(NameRead(buf, preference.pos, checked), LAMBDA exchange :
    DataLenChecked(Got([priority |-> preference.val, name |-> exchange.val], exchange.pos),
                   pos, data_len, checked)))

\* decode_txt_data: after the length byte the read position is set to
\* pos - 1, one bit before the length byte, and the string is read from there.
RECURSIVE decode_txt_loop(_, _, _, _, _)
decode_txt_loop(buf, pos, data_len, strings, read) ==
    Then(read_u8(buf, pos), LAMBDA len :
    IF read + len.val + 1 > data_len THEN Fail("DataLenMismatch", pos - 1)
    ELSE Then(decode_character_string(buf, pos - 1), LAMBDA str :
         IF read + len.val + 1 = data_len THEN Got(Append(strings, str.val), str.pos)
         ELSE decode_txt_loop(buf, str.pos, data_len, Append(strings, str.val), read + len.val + 1)))

decode_txt_data(buf, pos, data_len) == decode_txt_loop(buf, pos, data_len, <<>>, 0)

\* decode_record_type: an unknown type number consumes the rest of the record.
decode_record_type(buf, pos) ==
    Then(read_u16(buf, pos), LAMBDA num :
    IF RecordTypeFromNum(num.val).ok
    THEN (IF is_supported_for_records(RecordTypeFromNum(num.val).val)
          THEN Got(RecordTypeFromNum(num.val).val, num.pos)
          ELSE Fail("UnsupportedType", num.pos))
    ELSE Then(read_u16(buf, num.pos), LAMBDA class :
         Then(read_u32(buf, class.pos), LAMBDA ttl :
         Then(read_u16(buf, ttl.pos), LAMBDA data_len :
         IF ~read_bytes_vec(buf, data_len.pos, data_len.val).ok
         THEN Fail("BytesEnd", data_len.pos)
         ELSE Fail("UnknownType", data_len.pos + 8 * data_len.val)))))

\* The data decoder of the record type.
decode_data(rec_type, buf, pos, data_len, checked) ==
    CASE rec_type = "A" -> decode_a_data(buf, pos, data_len)
      [] rec_type \in {"NS", "CNAME", "PTR"} -> decode_ns_data(buf, pos, data_len, checked)
      [] rec_type = "SOA" -> decode_soa_data(buf, pos, data_len, checked)
      [] rec_type = "WKS" -> decode_wks_data(buf, pos, data_len, checked)
      [] rec_type = "HINFO" -> decode_hinfo_data(buf, pos, data_len, checked)
      [] rec_type = "MX" -> decode_mx_data(buf, pos, data_len, checked)
      [] rec_type = "TXT" -> decode_txt_data(buf, pos, data_len)

\* The class of an item on the wire.
ClassRead(buf, pos) ==
    Then(read_u16(buf, pos), LAMBDA num :
    IF ~decode_class(num.val).ok THEN Fail(decode_class(num.val).err, num.pos)
    ELSE Got(decode_class(num.val).val, num.pos))

\* Record::decode_from_buf
record_decode_from_buf(buf, pos, checked) ==
    Then(NameRead(buf, pos, checked), LAMBDA node :
    Then(decode_record_type(buf, node.pos), LAMBDA rec_type :
    Then(ClassRead(buf, rec_type.pos), LAMBDA class :
    Then(read_u32(buf, class.pos), LAMBDA ttl :
    Then(read_u16(buf, ttl.pos), LAMBDA data_len :
    Then(decode_data(rec_type.val, buf, data_len.pos, data_len.val, checked), LAMBDA rdata :
    Got([node |-> node.val, record_type |-> rec_type.val, class |-> class.val,
         ttl |-> ttl.val, data_len |-> data_len.val, data |-> rdata.val], rdata.pos)))))))

\* RecordType::to_num
RecordTypeToNum(t) == CHOOSE n \in KnownTypeNums : RecordTypeName(n) = t

\* encode_txt_data: the strings, each with its length before it.
RECURSIVE EncodedStrings(_, _)
EncodedStrings(strings, i) ==
    IF i > Len(strings) THEN <<>>
    ELSE encode_character_string(strings[i]).val \o EncodedStrings(strings, i + 1)

\* encode_wks_data: the ports, each as a u32.
RECURSIVE EncodedPorts(_, _)
EncodedPorts(ports, i) ==
    IF i > Len(ports) THEN <<>> ELSE U32Bytes(ports[i]) \o EncodedPorts(ports, i + 1)

\* encode_a_data .. encode_txt_data: the data length written and the bytes
\* of the data after it.
encode_data(rec) ==
    LET d == rec.data IN
    CASE rec.record_type = "A" -> [len |-> 4, bytes |-> d]
      [] rec.record_type \in {"NS", "CNAME", "PTR"} ->
            [len |-> Len(to_bytes(d)), bytes |-> to_bytes(d)]
      [] rec.record_type = "SOA" ->
            [len |-> Len(to_bytes(d.ns_name)) + Len(to_bytes(d.ml_name)) + 20,
             bytes |-> to_bytes(d.ns_name) \o to_bytes(d.ml_name) \o U32Bytes(d.serial)
                        \o U32Bytes(d.refresh) \o U32Bytes(d.retry) \o U32Bytes(d.expire)
                        \o U32Bytes(d.minimum)]
      [] rec.record_type = "WKS" ->
            [len |-> 5 + Len(d.ports),
             bytes |-> d.address \o <<d.protocol>> \o EncodedPorts(d.ports, 1)]
      [] rec.record_type = "HINFO" ->
            [len |-> Len(encode_character_string(d.cpu).val) + Len(encode_character_string(d.os).val),
             bytes |-> encode_character_string(d.cpu).val \o encode_character_string(d.os).val]
      [] rec.record_type = "MX" ->
            [len |-> 2 + Len(to_bytes(d.name)), bytes |-> U16Bytes(d.priority) \o to_bytes(d.name)]
      [] rec.record_type = "TXT" ->
            [len |-> Len(EncodedStrings(d, 1)), bytes |-> EncodedStrings(d, 1)]

\* Record::encode_to_buf, for a record of a supported type and of class IN
\* with strings of at most 255 bytes: the bytes appended to the buffer.
record_encode_to_buf(rec) ==
    to_bytes(rec.node) \o U16Bytes(RecordTypeToNum(rec.record_type)) \o U16Bytes(1)
        \o U32Bytes(rec.ttl) \o U16Bytes(encode_data(rec).len % (LastU16 + 1))
        \o encode_data(rec).bytes

\* ------------------------------------------------------------------ dns::message (wire form)

\* decode_record_type of questions that leaves the class of an unknown type unread.
question_decode_record_type_unread(buf, pos) ==
    Then(read_u16(buf, pos), LAMBDA num :
    IF RecordTypeFromNum(num.val).ok
    THEN (IF is_supported_for_question(RecordTypeFromNum(num.val).val)
          THEN Got(RecordTypeFromNum(num.val).val, num.pos)
          ELSE Fail("UnsupportedType", num.pos))
    ELSE Fail("UnknownType", num.pos))

\* decode_record_type of questions: an unknown type number consumes the class.
question_decode_record_type(buf, pos) ==
    Then(read_u16(buf, pos), LAMBDA num :
    IF RecordTypeFromNum(num.val).ok
    THEN (IF is_supported_for_question(RecordTypeFromNum(num.val).val)
          THEN Got(RecordTypeFromNum(num.val).val, num.pos)
          ELSE Fail("UnsupportedType", num.pos))
    ELSE IF ~read_u16(buf, num.pos).ok THEN Fail("BytesEnd", num.pos)
    ELSE Fail("UnknownType", num.pos + 16))

\* Question::decode_from_buf
question_decode_from_buf(buf, pos, checked) ==
    Then(NameRead(buf, pos, checked), LAMBDA node :
    Then(question_decode_record_type(buf, node.pos), LAMBDA record_type :
    Then(ClassRead(buf, record_type.pos), LAMBDA class :
    Got([node |-> node.val, record_type |-> record_type.val, class |-> class.val], class.pos))))

\* What Message::decode_from_bytes gives: the message, or the error of an
\* item with its section and index, or a panic; with the read position.
MsgErr(section, index, e, pos) ==
    [ok |-> FALSE, panic |-> FALSE, err |-> [section |-> section, index |-> index, err |-> e],
     pos |-> pos]
MsgPanic(e, pos) ==
    [ok |-> FALSE, panic |-> TRUE, err |-> [section |-> "none", index |-> 0, err |-> e],
     pos |-> pos]

\* One of the four loops of Message::decode_from_bytes, from its turn i on:
\* the item of the turn is decoded (decode_item), then kept, skipped or
\* returned as the error of the message (decode_items_with).
decode_item(buf, pos, section, checked) ==
    IF section = "QuestionErr" THEN question_decode_from_buf(buf, pos, checked)
    ELSE record_decode_from_buf(buf, pos, checked)

RECURSIVE decode_items(_, _, _, _, _, _, _)
decode_items_with(buf, r, count, i, acc, section, checked) ==
    IF r.ok THEN decode_items(buf, r.pos, count, i + 1, Append(acc, r.val), section, checked)
    ELSE IF r.err = "UnknownType"
    THEN decode_items(buf, r.pos, count, i + 1, acc, section, checked)
    ELSE IF r.err \in {"panic", "diverges"} THEN MsgPanic(r.err, r.pos)
    ELSE MsgErr(section, i, r.err, r.pos)

decode_items(buf, pos, count, i, acc, section, checked) ==
    IF i >= count THEN [ok |-> TRUE, val |-> acc, pos |-> pos]
    ELSE decode_items_with(buf, decode_item(buf, pos, section, checked), count, i, acc,
                           section, checked)

\* Message::decode_from_bytes after the header, whose four counts are the
\* bytes 4 to 11.
decode_sections(buf, checked) ==
    Then(decode_items(buf, 96, read_u16(buf, 32).val, 0, <<>>, "QuestionErr", checked),
         LAMBDA questions :
    Then(decode_items(buf, questions.pos, read_u16(buf, 48).val, 0, <<>>, "AnswerErr", checked),
         LAMBDA answers :
    Then(decode_items(buf, answers.pos, read_u16(buf, 64).val, 0, <<>>, "AuthorityErr", checked),
         LAMBDA authorities :
    Then(decode_items(buf, authorities.pos, read_u16(buf, 80).val, 0, <<>>, "AdditionalErr",
                      checked),
         LAMBDA additionals :
    [ok |-> TRUE, panic |-> FALSE,
     val |-> [questions |-> questions.val, answers |-> answers.val,
              authorities |-> authorities.val, additionals |-> additionals.val],
     pos |-> additionals.pos]))))

\* ------------------------------------------------------------------ nameserver::zones (loader)

\* parse_record of a sub-zone file, on an entry whose tokens gave the node,
\* the type and the data, of class IN and with a TTL above the minimum: the
\* node must be in the sub-zone, the type A or NS.
parse_sub_record(zone, entry) ==
    IF ~is_in_zone(entry.node, zone) THEN Err("NameNotInZone")
    ELSE IF entry.record_type \in {"A", "NS"}
    THEN Ok(Rec(entry.node, entry.record_type, entry.ttl, entry.data))
    ELSE Err("UnexpectedRecord")

\* parse_entries of a sub-zone file: the zone of the records, or the first error.
RECURSIVE parse_sub_entries(_, _, _, _)
parse_sub_entries(zone, entries, i, records) ==
    IF i > Len(entries) THEN Ok(Zone(zone, records))
    ELSE IF ~parse_sub_record(zone, entries[i]).ok THEN parse_sub_record(zone, entries[i])
    ELSE parse_sub_entries(zone, entries, i + 1, Append(records, parse_sub_record(zone, entries[i]).val))

\* Zone::get_all_of_type: the indexes of the records of the type.
get_all_of_type(z, kind) == { i \in DOMAIN z.records : z.records[i].record_type = kind }

\* validate_auth_zone
validate_auth_zone(zones) ==
    IF get_all_of_type(zones.auth_zone, "NS") = {} THEN Err("MalformedZone")
    ELSE IF \E i \in get_all_of_type(zones.auth_zone, "NS") :
                zones.auth_zone.records[i].node # zones.auth_zone.zone
    THEN Err("NameNotInRootNode")
    ELSE Ok(<<>>)

\* search_glue_records
search_glue_records(ns_name, sub_zone) == ZoneGet(sub_zone, ns_name, "A") # <<>>

\* search_referred_ns
search_referred_ns(a_node, sub_zone) ==
    \E i \in DOMAIN ZoneGet(sub_zone, sub_zone.zone, "NS") :
        ZoneGet(sub_zone, sub_zone.zone, "NS")[i].data = a_node

\* validate_subzone, the test of one NS record: at the top node, and, when
\* its target is inside the authoritative zone, with glue in every sub-zone
\* that contains the target.
NsRecordValid(ns_record, subzone, zones) ==
    /\ ns_record.node = subzone.zone
    /\ is_in_zone(ns_record.data, zones.auth_zone.zone) =>
          \A k \in DOMAIN zones.sub_zones :
              is_in_zone(ns_record.data, zones.sub_zones[k].zone) =>
                  search_glue_records(ns_record.data, zones.sub_zones[k])

\* validate_subzone, the test of one A record: some sub-zone has an NS
\* record with the node of the A record as its target.
ARecordValid(a_record, zones) ==
    \E k \in DOMAIN zones.sub_zones : search_referred_ns(a_record.node, zones.sub_zones[k])

\* validate_subzone: the NS records are tested one by one and the first
\* that fails gives the error, then the A records. (The records come in the
\* order of the hash map of the zone; here in the order of the file.)
validate_subzone(subzone, zones) ==
    LET ns_failed == { i \in get_all_of_type(subzone, "NS") : ~NsRecordValid(subzone.records[i], subzone, zones) }
        first_failed == CHOOSE i \in ns_failed : \A j \in ns_failed : i <= j
    IN  IF get_all_of_type(subzone, "NS") = {} THEN Err("MalformedZone")
        ELSE IF ns_failed # {}
        THEN IF subzone.records[first_failed].node # subzone.zone
             THEN Err("NameNotInRootNode")
             ELSE Err("MalformedZone")
        ELSE IF \E i \in get_all_of_type(subzone, "A") : ~ARecordValid(subzone.records[i], zones)
        THEN Err("MalformedZone")
        ELSE Ok(<<>>)

\* parse_zone_files, from the parsed authoritative zone on: the sub-zone
\* files are parsed in order, then the zones are validated.
RECURSIVE ParsedSubZones(_, _, _)
ParsedSubZones(sub_files, i, acc) ==
    IF i > Len(sub_files) THEN Ok(acc)
    ELSE LET sub_zone == parse_sub_entries(sub_files[i].zone, sub_files[i].entries, 1, <<>>) IN
         IF ~sub_zone.ok THEN sub_zone
         ELSE ParsedSubZones(sub_files, i + 1, Append(acc, sub_zone.val))

parse_zone_files(auth_zone, sub_files) ==
    LET sub_zones == ParsedSubZones(sub_files, 1, <<>>)
        zones == [auth_zone |-> auth_zone, sub_zones |-> sub_zones.val]
        failed == { k \in DOMAIN zones.sub_zones : ~validate_subzone(zones.sub_zones[k], zones).ok }
        first_failed == CHOOSE k \in failed : \A j \in failed : k <= j
    IN  IF ~sub_zones.ok THEN sub_zones
        ELSE IF ~validate_auth_zone(zones).ok THEN validate_auth_zone(zones)
        ELSE IF failed # {} THEN validate_subzone(zones.sub_zones[first_failed], zones)
        ELSE Ok(zones)

\* ------------------------------------------------------------------ shared::buffer (bits)

\* 1_u16 << n, for n up to 8.
OneShl(n) == IF n = 8 THEN 256 ELSE Pow2(n)

\* Bit k of a byte, bit 0 being the least significant.
BitOf(x, k) == (x \div Pow2(k)) % 2

\* The operators &, |, ! on u8, and the shifts << and >> of a u8 by less than 8.
RECURSIVE BitAndFrom(_, _, _)
BitAndFrom(x, y, k) ==
    IF k = 8 THEN 0 ELSE BitOf(x, k) * BitOf(y, k) * Pow2(k) + BitAndFrom(x, y, k + 1)
BitAnd(x, y) == BitAndFrom(x, y, 0)
BitNot(x) == 255 - x
BitOr(x, y) == BitNot(BitAnd(BitNot(x), BitNot(y)))
Shl(x, k) == (x * Pow2(k)) % 256
Shr(x, k) == x \div Pow2(k)

\* A BitsBuffer.
BitsBuffer(buf, last, w_pos, r_pos) == [buf |-> buf, last |-> last, w_pos |-> w_pos, r_pos |-> r_pos]

\* BitsBuffer::new and BitsBuffer::from_raw_bytes
new_buffer == BitsBuffer(<<>>, 0, 0, 0)
from_raw_bytes(bytes) == BitsBuffer(bytes, Len(bytes) * 8, Len(bytes) * 8, 0)

\* BitsBuffer::set_read_pos and set_write_pos, called with a position that
\* is not beyond last.
set_read_pos(b, r_pos) == [b EXCEPT !.r_pos = r_pos]
set_write_pos(b, w_pos) == [b EXCEPT !.w_pos = w_pos]

\* BitsBuffer::read_bits, for n from 1 to 8: the value read, if any, and the
\* buffer afterwards.
ReadWithin(byte, n, remaining_bits) ==
    Shr(BitAnd(byte, OneShl(remaining_bits) - 1), remaining_bits - n)
ReadAcross(byte, next, n, remaining_bits) ==
    BitOr(Shl(BitAnd(byte, OneShl(remaining_bits) - 1), n - remaining_bits),
          Shr(next, 8 - (n - remaining_bits)))
ReadAt(buf, bytes_offset, n, remaining_bits) ==
    IF n <= remaining_bits THEN ReadWithin(buf[bytes_offset + 1], n, remaining_bits)
    ELSE ReadAcross(buf[bytes_offset + 1], buf[bytes_offset + 2], n, remaining_bits)
read_bits(b, n) ==
    IF b.r_pos + n > b.last THEN [read |-> None, buffer |-> b]
    ELSE [read |-> Some(ReadAt(b.buf, b.r_pos \div 8, n, 8 - (b.r_pos % 8))),
          buffer |-> [b EXCEPT !.r_pos = @ + n]]

\* BitsBuffer::write_bits, for n from 1 to 8: the buffer afterwards.
Enlarged(buf, w_pos, n) == IF Len(buf) * 8 - w_pos < n THEN Append(buf, 0) ELSE buf
WriteWithinNoErase(buf, i, bits, n, avail) ==
    [buf EXCEPT ![i] = BitOr(@, Shl(bits, avail - n))]
WriteWithin(buf, i, bits, n, avail) ==
    [buf EXCEPT ![i] = BitOr(BitAnd(@, BitNot(Shl(OneShl(n) - 1, avail - n))), Shl(bits, avail - n))]
WriteAcross(buf, i, bits, n, avail) ==
    [buf EXCEPT ![i] = BitOr(BitAnd(@, BitNot(OneShl(avail) - 1)), Shr(bits, n - avail)),
                ![i + 1] = BitOr(BitAnd(@, BitNot(Shl(OneShl(n - avail) - 1, 8 - (n - avail)))),
                                 Shl(BitAnd(bits, OneShl(n - avail) - 1), 8 - (n - avail)))]
WriteAt(buf, w_pos, bits, n, avail) ==
    IF n <= avail THEN WriteWithin(buf, w_pos \div 8 + 1, bits, n, avail)
    ELSE WriteAcross(buf, w_pos \div 8 + 1, bits, n, avail)
write_bits(b, bits, n) ==
    [b EXCEPT !.buf = WriteAt(Enlarged(b.buf, b.w_pos, n), b.w_pos, BitAnd(bits, OneShl(n) - 1), n,
                              8 - (b.w_pos % 8)),
              !.w_pos = @ + n,
              !.last = IF b.w_pos + n > @ THEN b.w_pos + n ELSE @]

\* ------------------------------------------------------------------ nameserver::zones::tokens

\* char::is_whitespace, on the characters of zone files
is_whitespace(ch) == ch \in {" ", "\t"}

\* str::trim
RECURSIVE TrimStart(_)
TrimStart(s) == IF s # <<>> /\ is_whitespace(Head(s)) THEN TrimStart(Tail(s)) ELSE s
RECURSIVE TrimEnd(_)
TrimEnd(s) ==
    IF s # <<>> /\ is_whitespace(s[Len(s)]) THEN TrimEnd(SubSeq(s, 1, Len(s) - 1)) ELSE s
trim(s) == TrimEnd(TrimStart(s))

\* A Token; String, QString and Number carry the characters read, a Number
\* being a String that str::parse::<u32> accepts.
Token(kind) == [kind |-> kind, val |-> <<>>]
TokenOf(kind, val) == [kind |-> kind, val |-> val]

\* Tokenizer::from_file on a file that opens: the lines not yet read, the
\* characters of the current line, the peeked tokens, the multiline flag, the
\* number of lines read and the position in the current line.
from_file(lines) ==
    [lines |-> lines, line_chars |-> <<>>, peeked |-> <<>>, multiline |-> FALSE, line |-> 0, pos |-> 0]

\* The results of the methods of the tokenizer: a token, an error or a panic,
\* and the tokenizer afterwards.
TokOk(tok, t) == [ok |-> TRUE, tok |-> tok, t |-> t]
TokErr(err, t) == [ok |-> FALSE, err |-> err, t |-> t]

\* Tokenizer::load_new_line: empty lines and lines of comment are skipped.
RECURSIVE load_new_line(_)
load_new_line(t) ==
    IF t.lines = <<>> THEN [loaded |-> FALSE, t |-> t]
    ELSE IF trim(Head(t.lines)) # <<>> /\ Head(trim(Head(t.lines))) # ";"
    THEN [loaded |-> TRUE,
          t |-> [t EXCEPT !.lines = Tail(@), !.line = @ + 1, !.line_chars = Head(t.lines), !.pos = 0]]
    ELSE load_new_line([t EXCEPT !.lines = Tail(@), !.line = @ + 1])

\* The character at the position, which is before the end of the line.
Cur(t) == t.line_chars[t.pos + 1]

\* Tokenizer::process_whitespace
RECURSIVE SkipWhitespace(_)
SkipWhitespace(t) ==
    IF t.pos < Len(t.line_chars) /\ is_whitespace(Cur(t)) THEN SkipWhitespace([t EXCEPT !.pos = @ + 1])
    ELSE t
process_whitespace(t) == TokOk(Token("Blank"), SkipWhitespace(t))

\* The loop of process_directive, of process_string_or_number (quoted FALSE)
\* and of process_quoted_string (quoted TRUE): left is the number of
\* iterations left of `for _ in self.pos..self.line_chars.len()`, fixed when
\* the loop begins, and each iteration reads the character at the position,
\* which an escape moves by two: reading past the end of the line panics.
RECURSIVE ReadChars(_, _, _, _)
ReadChars(t, str, left, quoted) ==
    IF left = 0 THEN [ok |-> TRUE, str |-> str, closed |-> FALSE, t |-> t]
    ELSE IF t.pos >= Len(t.line_chars) THEN [ok |-> FALSE, err |-> "panic", str |-> str, t |-> t]
    ELSE IF Cur(t) = "\\"
    THEN (IF t.pos + 1 >= Len(t.line_chars)
          THEN [ok |-> FALSE, err |-> "InvalidEscape", str |-> str, t |-> t]
          ELSE ReadChars([t EXCEPT !.pos = @ + 2], Append(str, t.line_chars[t.pos + 2]), left - 1, quoted))
    ELSE IF quoted /\ Cur(t) = "\""
    THEN [ok |-> TRUE, str |-> str, closed |-> TRUE, t |-> [t EXCEPT !.pos = @ + 1]]
    ELSE IF ~quoted /\ (Cur(t) \in {"(", ")", ";"} \/ is_whitespace(Cur(t)))
    THEN [ok |-> TRUE, str |-> str, closed |-> FALSE, t |-> t]
    ELSE ReadChars([t EXCEPT !.pos = @ + 1], Append(str, Cur(t)), left - 1, quoted)

\* Tokenizer::process_directive
DirectiveOf(r) ==
    IF ~r.ok THEN TokErr(r.err, r.t)
    ELSE IF r.str = <<"$", "O", "R", "I", "G", "I", "N">> THEN TokOk(Token("OriginDir"), r.t)
    ELSE IF r.str = <<"$", "I", "N", "C", "L", "U", "D", "E">> THEN TokOk(Token("IncludeDir"), r.t)
    ELSE TokErr("DirMalformed", r.t)
process_directive(t) ==
    DirectiveOf(ReadChars([t EXCEPT !.pos = @ + 1], <<"$">>, Len(t.line_chars) - (t.pos + 1), FALSE))

\* Tokenizer::process_quoted_string
QuotedOf(r) ==
    IF ~r.ok THEN TokErr(r.err, r.t)
    ELSE IF r.closed THEN TokOk(TokenOf("QString", r.str), r.t)
    ELSE TokErr("QStrNotClosed", r.t)
process_quoted_string(t) ==
    QuotedOf(ReadChars([t EXCEPT !.pos = @ + 1], <<>>, Len(t.line_chars) - (t.pos + 1), TRUE))

\* str::parse::<u32> succeeds: decimal digits after an optional +, of value
\* at most u32::MAX.
Digits == {"0", "1", "2", "3", "4", "5", "6", "7", "8", "9"}
DigitValue(ch) == CHOOSE n \in 0..9 : <<"0", "1", "2", "3", "4", "5", "6", "7", "8", "9">>[n + 1] = ch
U32MaxDigits == <<4, 2, 9, 4, 9, 6, 7, 2, 9, 5>>
RECURSIVE StripZeros(_)
StripZeros(s) == IF s # <<>> /\ Head(s) = "0" THEN StripZeros(Tail(s)) ELSE s
\* The digits s, as many as those of u32::MAX, read as a number at most u32::MAX.
RECURSIVE AtMostU32Max(_, _)
AtMostU32Max(s, i) ==
    \/ i > Len(s)
    \/ DigitValue(s[i]) < U32MaxDigits[i]
    \/ DigitValue(s[i]) = U32MaxDigits[i] /\ AtMostU32Max(s, i + 1)
FitsU32(s) == Len(s) < Len(U32MaxDigits) \/ (Len(s) = Len(U32MaxDigits) /\ AtMostU32Max(s, 1))
AllDigits(s) == s # <<>> /\ (\A i \in DOMAIN s : s[i] \in Digits) /\ FitsU32(StripZeros(s))
ParsesAsU32(s) == AllDigits(s) \/ (s # <<>> /\ Head(s) = "+" /\ AllDigits(Tail(s)))

\* Tokenizer::process_string_or_number
StringOrNumberOf(r) ==
    IF ~r.ok THEN TokErr(r.err, r.t)
    ELSE IF r.str = <<"@">> THEN TokOk(Token("At"), r.t)
    ELSE IF ParsesAsU32(r.str) THEN TokOk(TokenOf("Number", r.str), r.t)
    ELSE TokOk(TokenOf("String", r.str), r.t)
process_string_or_number(t) ==
    StringOrNumberOf(ReadChars(t, <<>>, Len(t.line_chars) - t.pos, FALSE))

\* Tokenizer::next at the end of the file.
EndOfFile(t) == IF t.multiline THEN TokErr("MlMissingClose", t) ELSE TokOk(Token("End"), t)

\* Tokenizer::next: the token is parsed at the position; '(' , ')' and a
\* comment are consumed and next is called again.
RECURSIVE next(_)
ParseToken(t) ==
    CASE is_whitespace(Cur(t)) -> process_whitespace(t)
      [] Cur(t) = "$" -> process_directive(t)
      [] Cur(t) = "\"" -> process_quoted_string(t)
      [] Cur(t) = "(" ->
            IF t.multiline THEN TokErr("MlUnexpectedOpen", t)
            ELSE next([t EXCEPT !.multiline = TRUE, !.pos = @ + 1])
      [] Cur(t) = ")" ->
            IF ~t.multiline THEN TokErr("MlUnexpectedClose", t)
            ELSE next([t EXCEPT !.multiline = FALSE, !.pos = @ + 1])
      [] Cur(t) = ";" -> next([t EXCEPT !.pos = Len(t.line_chars)])
      [] OTHER -> process_string_or_number(t)

\* Tokenizer::next once a line was asked for at the end of the current one.
AfterLoadAlways(r) ==
    IF ~r.loaded THEN EndOfFile(r.t)
    ELSE TokOk(Token("NewLine"), r.t)
AfterLoad(r) ==
    IF ~r.loaded THEN EndOfFile(r.t)
    ELSE IF ~r.t.multiline THEN TokOk(Token("NewLine"), r.t)
    ELSE ParseToken(r.t)

\* Tokenizer::next after its first lines: a peeked token is returned first.
NextToken(t) ==
    IF t.peeked # <<>> THEN TokOk(Head(t.peeked), [t EXCEPT !.peeked = Tail(@)])
    ELSE IF Len(t.line_chars) = t.pos THEN AfterLoad(load_new_line(t))
    ELSE ParseToken(t)

\* Tokenizer::next, the first call loading the first line.
Bootstrapped(r) == IF ~r.loaded THEN EndOfFile(r.t) ELSE NextToken(r.t)
next(t) == IF t.line = 0 THEN Bootstrapped(load_new_line(t)) ELSE NextToken(t)

\* Tokenizer::peek
Peeked(r) == IF ~r.ok THEN r ELSE [r EXCEPT !.t.peeked = Append(@, r.tok)]
peek(t) == Peeked(next(t))

\* ------------------------------------------------------------------ nameserver::zones::parser_auth

\* Name::is_only_in_auth_zone
is_only_in_auth_zone(name, auth_zone, sub_zones) ==
    /\ is_in_zone(name, auth_zone)
    /\ \A i \in DOMAIN sub_zones : ~is_in_zone(name, sub_zones[i])

\* ensure_min_ttl
ensure_min_ttl(min_ttl, ttl) == ttl >= min_ttl

\* The entries of a zone file, as their tokens give them. A record entry: the
\* node in its absolute form (None for a blank or an @), the TTL and the class
\* that parse_ttl_class found (None when absent), the type as written, and
\* the data (of a SOA: serial, refresh, retry, expire, minimum).
RecordEntry(node, ttl, class, type, rdata) ==
    [entry |-> "record", node |-> node, ttl |-> ttl, class |-> class, record_type |-> type,
     data |-> rdata]

\* An origin directive, with its absolute name.
OriginEntry(origin) == [entry |-> "origin", origin |-> origin]

\* An include directive: the entries of the file named (None when the file
\* cannot be read) and the origin in its absolute form (None when absent).
IncludeEntry(file, origin) == [entry |-> "include", file |-> file, origin |-> origin]

\* AuthParsingState
AuthParsingState(zone, sub_zones, current_orig, current_ttl, min_ttl) ==
    [zone |-> zone, sub_zones |-> sub_zones, current_orig |-> current_orig,
     current_ttl |-> current_ttl, min_ttl |-> min_ttl]

\* RecordType::from_str and is_supported_for_records, on the types of the files.
RecordTypesParsed == {"A", "NS", "CNAME", "WKS", "PTR", "HINFO", "MX", "TXT", "SOA"}
RecordTypesUnsupported == {"MD", "MF", "MB", "MG", "MR", "NULL", "MINFO", "AXFR", "MAILB", "MAILA", "*"}

\* The minimum of the data of a SOA record.
SoaMinimum(rdata) == rdata[5]

\* parse_record: the node, then the TTL and the class with their defaults,
\* the class and the TTL checked, then the type.
parse_record(entry, state) ==
    IF entry.node # None
       /\ ~is_only_in_auth_zone(entry.node[1], state.zone, state.sub_zones)
    THEN Err("NameNotInZone")
    ELSE IF ~ClassIsSupported(IF entry.class = None THEN "IN" ELSE entry.class[1])
    THEN Err("MalformedData")
    ELSE IF ~ensure_min_ttl(state.min_ttl,
                            IF entry.ttl = None THEN state.current_ttl ELSE entry.ttl[1])
    THEN Err("TtlTooLow")
    ELSE IF entry.record_type \in RecordTypesUnsupported THEN Err("UnexpectedRecord")
    ELSE IF entry.record_type \notin RecordTypesParsed THEN Err("MalformedData")
    ELSE IF entry.record_type = "SOA" THEN Err("UnexpectedRecord")
    ELSE Ok(Rec(IF entry.node = None THEN state.current_orig ELSE entry.node[1],
                entry.record_type,
                IF entry.ttl = None THEN state.current_ttl ELSE entry.ttl[1],
                entry.data))

\* parse_origin
parse_origin(entry, state) ==
    IF ~is_only_in_auth_zone(entry.origin, state.zone, state.sub_zones)
    THEN Err("NameNotInZone")
    ELSE Ok(entry.origin)

\* parse_include: the origin named, or the current one.
parse_include(entry, state) ==
    IF entry.origin = None THEN Ok(state.current_orig)
    ELSE IF ~is_only_in_auth_zone(entry.origin[1], state.zone, state.sub_zones)
    THEN Err("NameNotInZone")
    ELSE Ok(entry.origin[1])

\* The state of the included file that forgets the minimum TTL of its parent.
child_state_fresh(origin, p_state) ==
    AuthParsingState(p_state.zone, p_state.sub_zones, origin, p_state.current_ttl, 0)

\* parse_included_file: the state the included file starts with.
child_state(origin, p_state) ==
    AuthParsingState(p_state.zone, p_state.sub_zones, origin, p_state.current_ttl,
                     p_state.min_ttl)

\* parse_entries, with parse_included_file for an include directive: the
\* records of the file and of the files it includes, or the first error. The
\* state of the parent is the same after an included file. Zone::extend
\* inserts the records of each node and type in their order.
RECURSIVE parse_entries(_, _, _, _)
AfterRecord(entries, i, state, records, r) ==
    IF ~r.ok THEN r
    ELSE parse_entries(entries, i + 1, [state EXCEPT !.current_ttl = r.val.ttl],
                       Append(records, r.val))

AfterOrigin(entries, i, state, records, r) ==
    IF ~r.ok THEN r
    ELSE parse_entries(entries, i + 1, [state EXCEPT !.current_orig = r.val], records)

\* The parent goes on with the TTL of the last record of the included file.
AfterIncludedLeaking(entries, i, state, records, r) ==
    IF ~r.ok THEN r
    ELSE parse_entries(entries, i + 1,
                       IF r.val.records = <<>> THEN state
                       ELSE [state EXCEPT !.current_ttl = r.val.records[Len(r.val.records)].ttl],
                       records \o r.val.records)

\* parse_entries after parse_included_file returned: the state of the parent
\* is the one it had, the records of the included file are added.
AfterIncluded(entries, i, state, records, r) ==
    IF ~r.ok THEN r
    ELSE parse_entries(entries, i + 1, state, records \o r.val.records)

parse_included_file(file, origin, p_state) ==
    IF file = None THEN Err("ReadingErr")
    ELSE parse_entries(file[1], 1, child_state(origin, p_state), <<>>)

AfterInclude(entries, i, state, records, r) ==
    IF ~r.ok THEN r
    ELSE AfterIncluded(entries, i, state, records,
                       parse_included_file(entries[i].file, r.val, state))

parse_entries(entries, i, state, records) ==
    IF i > Len(entries) THEN Ok(Zone(state.zone, records))
    ELSE IF entries[i].entry = "origin"
    THEN AfterOrigin(entries, i, state, records, parse_origin(entries[i], state))
    ELSE IF entries[i].entry = "include"
    THEN AfterInclude(entries, i, state, records, parse_include(entries[i], state))
    ELSE AfterRecord(entries, i, state, records, parse_record(entries[i], state))

\* parse_starting_soa_record: the SOA record of the first entry and the
\* minimum TTL it sets, or the error.
parse_starting_soa_record(entries, state) ==
    IF entries = <<>> \/ entries[1].entry # "record" THEN Err("UnexpectedToken")
    ELSE IF entries[1].node # None /\ entries[1].node[1] # state.zone
    THEN Err("NameNotInRootNode")
    ELSE IF entries[1].class = None THEN Err("MalformedData")
    ELSE IF ~ClassIsSupported(entries[1].class[1]) THEN Err("MalformedData")
    ELSE IF entries[1].record_type \notin RecordTypesParsed \cup RecordTypesUnsupported
    THEN Err("MalformedData")
    ELSE IF entries[1].record_type # "SOA" THEN Err("UnexpectedRecord")
    ELSE IF ~ensure_min_ttl(SoaMinimum(entries[1].data),
                            IF entries[1].ttl = None THEN state.current_ttl
                            ELSE entries[1].ttl[1])
    THEN Err("TtlTooLow")
    ELSE Ok([soa_record |-> Rec(state.zone, "SOA",
                                IF entries[1].ttl = None THEN state.current_ttl
                                ELSE entries[1].ttl[1],
                                entries[1].data),
             state |-> [state EXCEPT !.min_ttl = SoaMinimum(entries[1].data)]])

\* parse_auth_zone_file: the SOA record first, the entries after it, and the
\* SOA record inserted last.
AfterEntries(soa_record, r) ==
    IF ~r.ok THEN r ELSE Ok(Zone(r.val.zone, Append(r.val.records, soa_record)))

AfterSoa(entries, r) ==
    IF ~r.ok THEN r
    ELSE AfterEntries(r.val.soa_record, parse_entries(entries, 2, r.val.state, <<>>))

parse_auth_zone_file(conf) ==
    IF conf.file = None THEN Err("ReadingErr")
    ELSE AfterSoa(conf.file[1],
                  parse_starting_soa_record(conf.file[1],
                      AuthParsingState(conf.zone, conf.sub_zones, conf.zone,
                                       conf.starting_ttl, 0)))

\* ------------------------------------------------------------------ resolver::back_end::requests (retries)

\* What the network does with one UDP request: the sending or the receiving
\* fails (io false), or bytes come back that decode or not, the message
\* decoded carrying an id.
NetReply(io, decodes, id) == [io |-> io, decodes |-> decodes, id |-> id]

\* The panic of an unwrap.
Panicked == [ok |-> FALSE, err |-> "panic"]

\* send_udp_packet: the first address of the nameserver is unwrapped.
send_udp_packet(addrs, net) ==
    IF addrs = <<>> THEN Panicked
    ELSE IF ~net.io THEN Err("IO")
    ELSE Ok(net)

\* send_query that accepts a response of any id.
send_query_any_id(addrs, request_id, net) ==
    IF ~send_udp_packet(addrs, net).ok THEN send_udp_packet(addrs, net)
    ELSE IF ~net.decodes THEN Err("MalformedResp")
    ELSE Ok([id |-> net.id])

\* send_query: the request built with the id drawn for it, the packet sent,
\* the response decoded and its id compared with the one of the request.
send_query(addrs, request_id, net) ==
    IF ~send_udp_packet(addrs, net).ok THEN send_udp_packet(addrs, net)
    ELSE IF ~net.decodes THEN Err("MalformedResp")
    ELSE IF net.id # request_id THEN Err("MalformedResp")
    ELSE Ok([id |-> net.id])

\* The state of send_query_with_retries: the loop counter, the last error,
\* what was returned (None while the loop runs), and the attempts made, each
\* with the id of its request and what the network did.
Retrying(i, err, returned, attempts) ==
    [i |-> i, err |-> err, returned |-> returned, attempts |-> attempts]

\* One turn of the loop of send_query_with_retries, the attempt having the
\* result r.
AfterAttempt(st, request_id, net, r) ==
    IF r = Panicked
    THEN Retrying(st.i, st.err, Some(r), Append(st.attempts, [request_id |-> request_id, net |-> net]))
    ELSE IF r.ok
    THEN Retrying(st.i, st.err, Some(r), Append(st.attempts, [request_id |-> request_id, net |-> net]))
    ELSE Retrying(st.i + 1, Some(r.err), None,
                  Append(st.attempts, [request_id |-> request_id, net |-> net]))

send_query_with_retries(ns_request, st, request_id, net) ==
    IF st.i >= ns_request.retries
    THEN Retrying(st.i, st.err, Some(IF st.err = None THEN Panicked ELSE Err(st.err[1])), st.attempts)
    ELSE AfterAttempt(st, request_id, net, send_query(ns_request.addrs, request_id, net))

\* ------------------------------------------------------------------ resolver::back_end::cache (the mutex)

\* Mutex::lock returns when no thread holds the guard; holder is 0 then.
lock_unguarded(holder) == TRUE
lock(holder) == holder = 0

\* The slot of a key that was never written.
VacantSlot == [exp |-> -1, val |-> "vacant"]

\* The entry Cache::set builds with the lock held at time t.
SetEntry(t, ttl, v) == [exp |-> t + ttl, val |-> v]

\* ------------------------------------------------------------------ calls of functions

NoCall == <<>>

CallInit ==
    /\ call_fn = "none"
    /\ call_arg = NoCall
    /\ call_ret = NoCall

\* ---- calls of the nameserver handler

NameCA == <<"c", ".", "a", ".">>
NameXA == <<"x", ".", "a", ".">>
NameSA == <<"s", ".", "a", ".">>
NameNSA == <<"n", ".", "s", ".", "a", ".">>
NameTA == <<"t", ".", "a", ".">>
NameMTA == <<"m", ".", "t", ".", "a", ".">>
NameBa == <<"b", "a", ".">>

\* The zone a. the nameserver is authoritative for.
AuthZoneA ==
    Zone(NameA, << Rec(NameA, "SOA", 5, [mname |-> NameN, serial |-> 1]),
                   Rec(NameBA, "A", 5, <<10, 0, 0, 1>>),
                   Rec(NameBA, "A", 5, <<10, 0, 0, 2>>),
                   Rec(NameCA, "CNAME", 5, NameBA) >>)

\* The managed zones of the model: a. with the sub-zone s.a., one of whose
\* nameservers lies inside it; and a. with the sub-zones s.a. and t.a., the
\* nameserver of both lying inside t.a.
ManagedZones ==
    << [auth_zone |-> AuthZoneA,
        sub_zones |-> << Zone(NameSA, << Rec(NameSA, "NS", 5, NameN),
                                         Rec(NameSA, "NS", 5, NameNSA),
                                         Rec(NameNSA, "A", 5, <<10, 0, 0, 5>>) >>) >>],
       [auth_zone |-> AuthZoneA,
        sub_zones |-> << Zone(NameSA, << Rec(NameSA, "NS", 5, NameMTA) >>),
                         Zone(NameTA, << Rec(NameTA, "NS", 5, NameMTA),
                                         Rec(NameMTA, "A", 5, <<10, 0, 0, 6>>),
                                         Rec(NameMTA, "A", 5, <<10, 0, 0, 7>>) >>) >>] >>

\* The questions clients send to the nameserver: names at the top of the
\* zone, inside it, inside a sub-zone and outside the zone; types A, CNAME and
\* the unknown type number 28.
NsWireQuestions ==
    { [name_res |-> "ok", node |-> n, typ |-> t, cls |-> 1] :
        n \in {NameA, NameBA, NameCA, NameXA, NameSA, NameNSA, NameBa}, t \in {1, 5, 28} }

\* A request on the wire, its record sections holding as many records as
\* the header counts.
NsWireRequest(complete, qr, qd, an, ns, questions) ==
    [io |-> FALSE,
     header |-> [complete |-> complete, id |-> 17, qr |-> qr, op |-> 0, aa |-> 0, tc |-> 0,
                 rd |-> 0, ra |-> 0, z |-> 0, rc |-> 0, qd |-> qd, an |-> an, ns |-> ns, ar |-> 0],
     questions |-> questions,
     answers |-> [i \in 1..an |-> WireRecord(1, "ok")],
     authorities |-> [i \in 1..ns |-> WireRecord(1, "ok")],
     additionals |-> <<>>]

\* The nameserver handles one request.
CallNsHandlerWith(z, w) ==
    /\ call_fn' = "handle_dns_request"
    /\ call_arg' = [bytes |-> w, zones |-> z]
    /\ call_ret' = handle_dns_request(w, ManagedZones[z])

CallNsHandler ==
    /\ call_fn = "none"
    /\ \E z \in DOMAIN ManagedZones, complete \in BOOLEAN, qr \in {0, 1},
          qd \in 0..MaxQuestions, an \in 0..MaxRecords, ns \in 0..MaxRecords :
          \E questions \in WireSections(NsWireQuestions, qd) :
              CallNsHandlerWith(z, NsWireRequest(complete, qr, qd, an, ns, questions))
    /\ UNCHANGED <<handlerVars, cacheVars, poolVars, lookupVars, serverVars>>

\* ---- calls of the name codec

MaxLabels == 3
MaxWire == 3
MaxChain == 18

\* The labels of the names encoded, and the valid names made of them.
NameLabels == { <<"a">>, <<"b", "1">>, <<"a", "-", "b">> }

RECURSIVE JoinLabels(_, _)
JoinLabels(labels, i) ==
    IF i > Len(labels) THEN <<>> ELSE labels[i] \o <<".">> \o JoinLabels(labels, i + 1)

ValidNames ==
    {NameRoot} \cup { JoinLabels(ls, 1) : ls \in UNION { [1..k -> NameLabels] : k \in 1..MaxLabels } }

\* The bytes of the buffers decoded: the end of a name, the lengths 1, 63
\* and 64, the letter a, and the pointers to the offsets 0 (0xC0 0x00),
\* 1 (0xC0 0x01) and 8192 (0xE0 0x00).
WireBytes == {0, 1, 63, 64, 97, 192, 224}

WireBuffers == UNION { [1..k -> WireBytes] : k \in 0..MaxWire }

\* A chain of k pointers, each to the next, before the name a.
PointerChain(k) == [i \in 1..(2 * k) |-> IF i % 2 = 1 THEN 192 ELSE i] \o <<1, 97, 0>>

\* A name whose only label has the length n.
LongLabelName(n) == <<n>> \o [i \in 1..n |-> 97] \o <<0>>

DecodedBuffers ==
    WireBuffers \cup { PointerChain(k) : k \in 0..MaxChain }
                \cup { LongLabelName(64) }

\* Name::from_bytes is called on a buffer.
CallFromBytesWith(name, buf, checked) ==
    /\ call_fn' = "from_bytes"
    /\ call_arg' = [name |-> name, buf |-> buf, checked |-> checked]
    /\ call_ret' = NameStart(0)

\* A name is encoded and the bytes are decoded.
CallToBytes ==
    /\ call_fn = "none"
    /\ \E n \in ValidNames, checked \in BOOLEAN : CallFromBytesWith(Some(n), to_bytes(n), checked)
    /\ UNCHANGED <<handlerVars, cacheVars, poolVars, lookupVars, serverVars>>

\* Bytes off the wire are decoded.
CallFromBytes ==
    /\ call_fn = "none"
    /\ \E buf \in DecodedBuffers, checked \in BOOLEAN : CallFromBytesWith(None, buf, checked)
    /\ UNCHANGED <<handlerVars, cacheVars, poolVars, lookupVars, serverVars>>

\* One turn of the loop of the decoder.
FromBytesLoop ==
    /\ call_fn = "from_bytes"
    /\ call_ret.pc = "loop"
    /\ call_ret' = NameLoop(call_arg.buf, call_ret, call_arg.checked)
    /\ UNCHANGED <<call_fn, call_arg>>
    /\ UNCHANGED <<handlerVars, cacheVars, poolVars, lookupVars, serverVars>>

\* The decoder leaves its loop and returns.
FromBytesReturn ==
    /\ call_fn = "from_bytes"
    /\ call_ret.pc = "after"
    /\ call_ret' = NameAfter(call_ret)
    /\ UNCHANGED <<call_fn, call_arg>>
    /\ UNCHANGED <<handlerVars, cacheVars, poolVars, lookupVars, serverVars>>

\* ---- calls of the record codec

MaxVariant == 2
SupportedKinds == {"A", "NS", "CNAME", "SOA", "WKS", "PTR", "HINFO", "MX", "TXT"}
RecordNames == {NameRoot, NameA, NameBA}
RecordTtls == {0, 300, 70000}

\* The data of a record of the kind, in its k-th variant, with the name.
RecordData(kind, k, name) ==
    CASE kind = "A" -> <<10, 0, 0, k>>
      [] kind \in {"NS", "CNAME", "PTR"} -> name
      [] kind = "SOA" -> [ns_name |-> name, ml_name |-> NameA, serial |-> k, refresh |-> 256 * k,
                          retry |-> 65536 + k, expire |-> 16777216 * k, minimum |-> 0]
      [] kind = "WKS" -> [address |-> <<10, 0, 0, k>>, protocol |-> 6,
                          ports |-> IF k = 1 THEN <<>> ELSE <<25>>]
      [] kind = "HINFO" -> [cpu |-> <<"x">>, os |-> IF k = 1 THEN <<>> ELSE <<"a", "b">>]
      [] kind = "MX" -> [priority |-> 256 * k + 1, name |-> name]
      [] kind = "TXT" -> IF k = 1 THEN << <<"a">> >> ELSE << <<"a", "b">>, <<"c">> >>

\* A record is encoded and the bytes are decoded.
CallEncodeToBufWith(rec, checked) ==
    /\ call_fn' = "encode_to_buf"
    /\ call_arg' = [rec |-> rec, checked |-> checked]
    /\ call_ret' = [bytes |-> record_encode_to_buf(rec),
                    decoded |-> record_decode_from_buf(record_encode_to_buf(rec), 0, checked)]

CallEncodeToBuf ==
    /\ call_fn = "none"
    /\ \E kind \in SupportedKinds, node \in RecordNames, name \in RecordNames,
          ttl \in RecordTtls, k \in 1..MaxVariant, checked \in BOOLEAN :
          CallEncodeToBufWith(Rec(node, kind, ttl, RecordData(kind, k, name)), checked)
    /\ UNCHANGED <<handlerVars, cacheVars, poolVars, lookupVars, serverVars>>

\* ---- calls of the message decoder

MaxQuestionItems == 2
MaxAnswerItems == 2

\* The questions on the wire, with what each is: a question (a. A IN), a
\* question of the unknown type 28, the same with a pointer to the offset 0
\* as its name, a question of the unsupported type MD, one of the unknown
\* class 9.
QuestionItems ==
    << [bytes |-> <<1, 97, 0, 0, 1, 0, 1>>, is |-> "item", err |-> "",
        val |-> [node |-> NameA, record_type |-> "A", class |-> "IN"]],
       [bytes |-> <<1, 97, 0, 0, 28, 0, 1>>, is |-> "unknown", err |-> ""],
       [bytes |-> <<192, 0, 0, 28, 0, 1>>, is |-> "unknown", err |-> ""],
       [bytes |-> <<1, 97, 0, 0, 3, 0, 1>>, is |-> "error", err |-> "UnsupportedType"],
       [bytes |-> <<1, 97, 0, 0, 1, 0, 9>>, is |-> "error", err |-> "UnknownClass"] >>

\* A record as decoded, with the data length read.
Decoded(rec, data_len) ==
    [node |-> rec.node, record_type |-> rec.record_type, class |-> rec.class, ttl |-> rec.ttl,
     data_len |-> data_len, data |-> rec.data]

\* The records on the wire: an A record of a., a record of the unknown type
\* 28 with two bytes of data, one of the unknown type 99 without data and
\* with a pointer as its owner, a record of the unsupported type MD, an A
\* record with a data length of 3, an A record with a pointer to the offset
\* 0 as its owner; and, for the last place of the message, a record of
\* unknown type whose data are cut.
RecordItems ==
    << [bytes |-> <<1, 97, 0, 0, 1, 0, 1, 0, 0, 0, 5, 0, 4, 10, 0, 0, 1>>, is |-> "item", err |-> "",
        val |-> Decoded(Rec(NameA, "A", 5, <<10, 0, 0, 1>>), 4)],
       [bytes |-> <<1, 97, 0, 0, 28, 0, 1, 0, 0, 0, 5, 0, 2, 1, 2>>, is |-> "unknown", err |-> ""],
       [bytes |-> <<192, 0, 0, 99, 0, 1, 0, 0, 0, 5, 0, 0>>, is |-> "unknown", err |-> ""],
       [bytes |-> <<1, 97, 0, 0, 3, 0, 1, 0, 0, 0, 5, 0, 0>>, is |-> "error", err |-> "UnsupportedType"],
       [bytes |-> <<1, 97, 0, 0, 1, 0, 1, 0, 0, 0, 5, 0, 3, 10, 0, 0>>, is |-> "error",
        err |-> "DataLenMismatch"],
       [bytes |-> <<192, 0, 0, 1, 0, 1, 0, 0, 0, 5, 0, 4, 10, 0, 0, 2>>, is |-> "item", err |-> "",
        val |-> Decoded(Rec(NameRoot, "A", 5, <<10, 0, 0, 2>>), 4)],
       [bytes |-> <<1, 97, 0, 0, 28, 0, 1, 0, 0, 0, 5, 0, 4, 1, 2>>, is |-> "error", err |-> "BytesEnd"] >>

CutRecord == Len(RecordItems)

\* The bytes of the items chosen, one after the other.
RECURSIVE ItemBytes(_, _, _)
ItemBytes(items, chosen, i) ==
    IF i > Len(chosen) THEN <<>> ELSE items[chosen[i]].bytes \o ItemBytes(items, chosen, i + 1)

\* The message on the wire: the header of a standard query with the four
\* counts, and the items.
MessageBytes(qs, ans, auths, adds) ==
    <<0, 17, 0, 0>> \o U16Bytes(Len(qs)) \o U16Bytes(Len(ans)) \o U16Bytes(Len(auths))
        \o U16Bytes(Len(adds)) \o ItemBytes(QuestionItems, qs, 1) \o ItemBytes(RecordItems, ans, 1)
        \o ItemBytes(RecordItems, auths, 1) \o ItemBytes(RecordItems, adds, 1)

\* The choices of at most n items out of the first k of a list.
Chosen(k, n) == UNION { [1..m -> 1..k] : m \in 0..n }

\* A message is decoded.
CallDecodeSectionsWith(qs, ans, auths, adds, checked) ==
    /\ call_fn' = "decode_from_bytes"
    /\ call_arg' = [questions |-> qs, answers |-> ans, authorities |-> auths, additionals |-> adds,
                    bytes |-> MessageBytes(qs, ans, auths, adds), checked |-> checked]
    /\ call_ret' = decode_sections(MessageBytes(qs, ans, auths, adds), checked)

CallDecodeSections ==
    /\ call_fn = "none"
    /\ \E qs \in Chosen(Len(QuestionItems), MaxQuestionItems),
          ans \in Chosen(CutRecord - 1, MaxAnswerItems),
          auths \in Chosen(CutRecord - 1, 1), adds \in Chosen(CutRecord, 1), checked \in BOOLEAN :
          CallDecodeSectionsWith(qs, ans, auths, adds, checked)
    /\ UNCHANGED <<handlerVars, cacheVars, poolVars, lookupVars, serverVars>>

\* ---- calls of the zone loader

MaxEntries == 3
MaxOtherEntries == 1

\* The authoritative zone a. as parsed, with its SOA and NS records.
LoadedAuthZone ==
    Zone(NameA, << Rec(NameA, "SOA", 5, [mname |-> NameN, serial |-> 1]),
                   Rec(NameA, "NS", 5, NameN),
                   Rec(NameBA, "A", 5, <<10, 0, 0, 1>>) >>)

\* The name of the label under the zone.
Under(label, zone) == <<label, ".">> \o zone

\* The entries a file of the sub-zone may hold, other being the other
\* sub-zone: NS records at the top for a nameserver inside the sub-zone,
\* inside the other sub-zone and outside the zone; the addresses of n and m
\* in the sub-zone (as the tokens of the file give them); an NS record below the top; a CNAME record; the address
\* of a name of the other sub-zone.
SubEntries(zone, other) ==
    << [node |-> zone, record_type |-> "NS", ttl |-> 5, data |-> Under("n", zone)],
       [node |-> zone, record_type |-> "NS", ttl |-> 5, data |-> Under("n", other)],
       [node |-> zone, record_type |-> "NS", ttl |-> 5, data |-> NameN],
       [node |-> Under("n", zone), record_type |-> "A", ttl |-> 5, data |-> <<"10", "0", "0", "5">>],
       [node |-> Under("m", zone), record_type |-> "A", ttl |-> 5, data |-> <<"10", "0", "0", "6">>],
       [node |-> Under("n", zone), record_type |-> "NS", ttl |-> 5, data |-> NameN],
       [node |-> Under("c", zone), record_type |-> "CNAME", ttl |-> 5, data |-> NameBA],
       [node |-> Under("n", other), record_type |-> "A", ttl |-> 5, data |-> <<"10", "0", "0", "7">>] >>

\* The file of the sub-zone with the entries chosen.
SubFile(zone, other, chosen) ==
    [zone |-> zone, entries |-> <<>> \o [i \in DOMAIN chosen |-> SubEntries(zone, other)[chosen[i]]]]

\* The zone files are loaded.
CallParseZoneFilesWith(sub_files) ==
    /\ call_fn' = "parse_zone_files"
    /\ call_arg' = sub_files
    /\ call_ret' = parse_zone_files(LoadedAuthZone, sub_files)

\* A zone with one sub-zone.
CallParseZoneFilesOne ==
    /\ call_fn = "none"
    /\ \E chosen \in Chosen(8, MaxEntries) :
          CallParseZoneFilesWith(<<SubFile(NameSA, NameTA, chosen)>>)
    /\ UNCHANGED <<handlerVars, cacheVars, poolVars, lookupVars, serverVars>>

\* A zone with two sub-zones.
CallParseZoneFilesTwo ==
    /\ call_fn = "none"
    /\ \E chosen \in Chosen(8, MaxEntries), others \in Chosen(8, MaxOtherEntries) :
          CallParseZoneFilesWith(<<SubFile(NameSA, NameTA, chosen), SubFile(NameTA, NameSA, others)>>)
    /\ UNCHANGED <<handlerVars, cacheVars, poolVars, lookupVars, serverVars>>

\* ---- calls of Name::is_in_zone

\* The labels of the names tested, and the names made of them, the root
\* included: ab. ends with the text of b. without a label boundary.
ZoneTestLabels == { <<"a">>, <<"b">>, <<"a", "b">> }

ZoneTestNames ==
    {NameRoot} \cup { JoinLabels(ls, 1) : ls \in UNION { [1..k -> ZoneTestLabels] : k \in 1..MaxLabels } }

\* n.is_in_zone(z) is called.
CallIsInZone ==
    /\ call_fn = "none"
    /\ \E n \in ZoneTestNames, z \in ZoneTestNames :
          /\ call_fn' = "is_in_zone"
          /\ call_arg' = [name |-> n, zone |-> z]
          /\ call_ret' = is_in_zone(n, z)
    /\ UNCHANGED <<handlerVars, cacheVars, poolVars, lookupVars, serverVars>>

\* ---- calls of perform_request

\* The name m.a.
NameMA == <<"m", ".", "a", ".">>

\* The sequences of at most MaxSection elements of s.
MaxSection == 2
SectionsOf(s) == UNION { [1..k -> s] : k \in 0..MaxSection }

\* The records of the responses classified.
RecA_MA == Rec(NameMA, "A", 1, <<10, 0, 0, 4>>)
RecNs_A_MA == Rec(NameA, "NS", 1, NameMA)
ClassifiedAnswers == SectionsOf({RecA_BA, RecCname_BA_A, RecCname_A_N})
ClassifiedAuthorities == SectionsOf({RecNs_A, RecNs_BA, RecSoa_BA, RecNs_A_MA})
ClassifiedAdditionals == {<<>>, <<RecA_N>>, <<RecA_MA>>, <<RecA_N, RecA_MA>>}
ClassifiedCodes == {"NoError", "NxDomain", "ServFail"}
ClassifiedNodes == {NameBA, NameA, NameBa}
ClassifiedKinds == {"A", "CNAME"}
ClassifiedZones == {NameRoot, NameA}

\* perform_request is called, the nameserver of a zone having sent a response.
PerformRequestOn(resp, node, kind, zone) ==
    /\ call_fn' = "perform_request"
    /\ call_arg' = [resp |-> resp, searched_node |-> node, searched_type |-> kind, zone |-> zone]
    /\ call_ret' = perform_request(resp, node, kind, zone)

CallPerformRequest ==
    /\ call_fn = "none"
    /\ \E code \in ClassifiedCodes, aa \in BOOLEAN, an \in ClassifiedAnswers,
          au \in ClassifiedAuthorities, ad \in ClassifiedAdditionals,
          node \in ClassifiedNodes, kind \in ClassifiedKinds, zone \in ClassifiedZones :
            PerformRequestOn(Response(code, aa, an, au, ad), node, kind, zone)
    /\ UNCHANGED <<handlerVars, cacheVars, poolVars, lookupVars, serverVars>>

\* ---- calls of BitsBuffer::write_bits

\* The buffers written to first, the values written and the number of
\* writes made one after the other.
FirstBuffers == {new_buffer, from_raw_bytes(<<170>>), from_raw_bytes(<<255, 0>>)}
WrittenValues == {0, 255, 181}
MaxWrites == 2

\* set_write_pos(p), write_bits(v, n), set_read_pos(p) and read_bits(n) on the buffer b.
WriteThenRead(b, p, v, n, writes) ==
    /\ call_fn' = "write_bits"
    /\ call_arg' = [buffer |-> set_write_pos(b, p), bits |-> v, n |-> n, writes |-> writes]
    /\ call_ret' = read_bits(set_read_pos(write_bits(set_write_pos(b, p), v, n), p), n)

CallWriteBits ==
    /\ call_fn = "none"
    /\ \E b \in FirstBuffers, v \in WrittenValues, n \in 1..8 :
          \E p \in 0..b.last : WriteThenRead(b, p, v, n, 1)
    /\ UNCHANGED <<handlerVars, cacheVars, poolVars, lookupVars, serverVars>>

\* A further write on the buffer the last call left.
CallWriteBitsAgain ==
    /\ call_fn = "write_bits"
    /\ call_arg.writes < MaxWrites
    /\ \E v \in WrittenValues, n \in 1..8 :
          \E p \in 0..call_ret.buffer.last :
              WriteThenRead(call_ret.buffer, p, v, n, call_arg.writes + 1)
    /\ UNCHANGED <<handlerVars, cacheVars, poolVars, lookupVars, serverVars>>

\* ---- calls of Tokenizer::next

\* The zone files read: at most MaxFileLines lines of at most MaxLineLen characters.
MaxLineLen == 2
MaxFileLines == 3
FileChars == {"(", ")", "a", " ", ";"}
FileLines == UNION { [1..k -> FileChars] : k \in 0..MaxLineLen }
Files == UNION { [1..k -> FileLines] : k \in 0..MaxFileLines }

\* next or peek is called on the tokenizer t of a file.
TokenizerCalled(file, t, op) ==
    /\ call_fn' = "next"
    /\ call_arg' = [file |-> file, op |-> op]
    /\ call_ret' = IF op = "peek" THEN peek(t) ELSE next(t)

\* A file is opened and its first token is asked for.
CallTokenizerFirst ==
    /\ call_fn = "none"
    /\ \E file \in Files, op \in {"next", "peek"} : TokenizerCalled(file, from_file(file), op)
    /\ UNCHANGED <<handlerVars, cacheVars, poolVars, lookupVars, serverVars>>

\* The next token is asked for, or peeked when none is.
CallTokenizerNext ==
    /\ call_fn = "next"
    /\ call_ret.ok /\ call_ret.tok.kind # "End"
    /\ \E op \in (IF call_ret.t.peeked = <<>> THEN {"next", "peek"} ELSE {"next"}) :
          TokenizerCalled(call_arg.file, call_ret.t, op)
    /\ UNCHANGED <<handlerVars, cacheVars, poolVars, lookupVars, serverVars>>

\* ---- calls of parse_auth_zone_file

MaxFileTtl == 2
MaxAuthEntries == 2
MaxIncludedEntries == 2

\* The TTL of an entry: absent, or a number.
FileTtls == {None} \cup { Some(t) : t \in 0..MaxFileTtl }
SoaMinimums == {1, 2}
StartingTtls == {0, MaxFileTtl}

SoaData(minimum) == <<1, 1, 1, 1, minimum>>
AddressData == <<10, 0, 0, 1>>

\* The first entries: SOA records of the zone a., and entries that are not.
FirstEntries ==
    { RecordEntry(n, t, Some("IN"), "SOA", SoaData(m)) :
        n \in {None, Some(NameA)}, t \in FileTtls, m \in SoaMinimums }
    \cup { RecordEntry(Some(NameXA), None, Some("IN"), "SOA", SoaData(1)),
           RecordEntry(None, None, None, "SOA", SoaData(1)),
           RecordEntry(None, None, Some("IN"), "A", AddressData),
           OriginEntry(NameA) }

\* The entries after the first: records, an origin, files included.
LaterEntries ==
    { RecordEntry(n, t, None, "A", AddressData) : n \in {None, Some(NameXA)}, t \in FileTtls }
    \cup { RecordEntry(None, None, Some("IN"), "A", AddressData),
           RecordEntry(None, None, Some("IN"), "SOA", SoaData(1)),
           RecordEntry(Some(NameBA), None, None, "A", AddressData),
           RecordEntry(None, None, Some("CH"), "A", AddressData),
           OriginEntry(NameXA),
           IncludeEntry(None, None),
           IncludeEntry(Some(<<RecordEntry(None, None, None, "A", AddressData)>>), None),
           IncludeEntry(Some(<<RecordEntry(None, Some(0), None, "A", AddressData)>>), None) }

AuthFiles ==
    {<<>>} \cup
    { <<first>> \o later : first \in FirstEntries,
                           later \in UNION { [1..n -> LaterEntries] : n \in 0..MaxAuthEntries } }

\* The entries of the files included: records of the current origin, and a
\* file included in turn.
IncludedEntries ==
    { RecordEntry(None, t, None, "A", AddressData) : t \in FileTtls }
    \cup { IncludeEntry(Some(<<RecordEntry(None, t, None, "A", AddressData)>>), None) :
             t \in {None, Some(0)} }

IncludedFiles == UNION { [1..n -> IncludedEntries] : n \in 0..MaxIncludedEntries }

\* The files of a SOA record, a record and a file included.
IncludingFiles ==
    { << RecordEntry(None, Some(MaxFileTtl), Some("IN"), "SOA", SoaData(m)),
         RecordEntry(None, t, None, "A", AddressData),
         IncludeEntry(Some(f), Some(NameXA)) >> :
        m \in SoaMinimums, t \in FileTtls, f \in IncludedFiles }

CallParseAuthZoneFileWith(file, starting_ttl) ==
    /\ call_fn' = "parse_auth_zone_file"
    /\ call_arg' = [zone |-> NameA, sub_zones |-> <<NameBA>>, file |-> Some(file),
                    starting_ttl |-> starting_ttl]
    /\ call_ret' = parse_auth_zone_file(call_arg')

\* The authoritative zone file of the zone a., with the sub-zone b.a., is parsed.
CallParseAuthZoneFile ==
    /\ call_fn = "none"
    /\ \E file \in AuthFiles, starting_ttl \in StartingTtls :
          CallParseAuthZoneFileWith(file, starting_ttl)
    /\ UNCHANGED <<handlerVars, cacheVars, poolVars, lookupVars, serverVars>>

\* The same, of a file that includes another.
CallParseAuthZoneFileIncluding ==
    /\ call_fn = "none"
    /\ \E file \in IncludingFiles, starting_ttl \in StartingTtls :
          CallParseAuthZoneFileWith(file, starting_ttl)
    /\ UNCHANGED <<handlerVars, cacheVars, poolVars, lookupVars, serverVars>>

\* ---- calls of send_query_with_retries

MaxRetries == 3
RequestIds == {0, 1}
NetReplies ==
    {NetReply(FALSE, FALSE, 0), NetReply(TRUE, FALSE, 0)}
    \cup { NetReply(TRUE, TRUE, id) : id \in RequestIds }
NsRequestAddrs == {<<>>, <<"10.0.0.1">>}

\* A nameserver is queried: max_upd_retries is at least 1, the nameserver may
\* have no address.
CallSendQueryWithRetries ==
    /\ call_fn = "none"
    /\ \E retries \in 1..MaxRetries, addrs \in NsRequestAddrs :
          /\ call_fn' = "send_query_with_retries"
          /\ call_arg' = [retries |-> retries, addrs |-> addrs]
          /\ call_ret' = Retrying(0, None, None, <<>>)
    /\ UNCHANGED <<handlerVars, cacheVars, poolVars, lookupVars, serverVars>>

\* One turn of the loop: the id of the request is drawn, the network replies.
SendQueryAttempt ==
    /\ call_fn = "send_query_with_retries"
    /\ call_ret.returned = None
    /\ \E request_id \in RequestIds, net \in NetReplies :
          call_ret' = send_query_with_retries(call_arg, call_ret, request_id, net)
    /\ UNCHANGED <<call_fn, call_arg>>
    /\ UNCHANGED <<handlerVars, cacheVars, poolVars, lookupVars, serverVars>>

\* ---- calls of search_nss_in_cache_with_trace

MaxProbeTtl == 2

\* The nodes searched, and the zones whose NS records the cache may hold.
ProbedNodes == {NameBA, NameA, NameN, NameRoot}
ProbedLevels == <<NameBA, NameA, NameRoot>>

\* The cache after the NS record of a zone was saved at time 0 with the TTL
\* given (not saved when 0).
SavedNs(d, zone, ttl) ==
    IF ttl = 0 THEN d ELSE save_records_in_cache(d, 0, <<Rec(zone, "NS", ttl, NameN)>>)

\* The cache after the NS records of the zones b.a., a. and '.' were saved,
\* and after them the address of their nameserver n.
SavedLevels(ttls, with_addr) ==
    IF with_addr
    THEN save_records_in_cache(
            SavedNs(SavedNs(SavedNs(<<>>, NameBA, ttls[1]), NameA, ttls[2]), NameRoot, ttls[3]),
            0, <<Rec(NameN, "A", MaxProbeTtl, <<10, 0, 0, 3>>)>>)
    ELSE SavedNs(SavedNs(SavedNs(<<>>, NameBA, ttls[1]), NameA, ttls[2]), NameRoot, ttls[3])

\* perform_inner with no candidate: the nameservers of the cache, or the root ones.
CandidatesOf(r) == IF r.nss = <<>> THEN root_zone_nameservers ELSE r.nss

\* A lookup without candidates probes the cache for nameservers, at a time
\* when the records of TTL 1 are still alive or when they have expired.
CallSearchNssInCache ==
    /\ call_fn = "none"
    /\ \E ttls \in [1..3 -> 0..MaxProbeTtl], with_addr \in BOOLEAN,
          node \in ProbedNodes, t \in {1, TicksPerSec} :
          /\ call_fn' = "search_nss_in_cache"
          /\ call_arg' = [data |-> SavedLevels(ttls, with_addr), now |-> t, searched_node |-> node]
          /\ call_ret' = [domains |-> generate_domain_hierarchy(node),
                          next_nss |-> CandidatesOf(search_nss_in_cache(call_arg'.data, t, node))]
    /\ UNCHANGED <<handlerVars, cacheVars, poolVars, lookupVars, serverVars>>

\* ---- calls of query_nameservers_iteratively

MaxCandidates == 4

\* The candidates of a set: the nameservers n., m.a., x.a., c.a. and s.a.,
\* the second one for the zone b.a. and the others for the zone a., each with
\* an address or without.
CandidateNodes == <<NameN, NameMA, NameXA, NameCA, NameSA>>
CandidateZones == <<NameA, NameBA, NameA, NameA, NameA>>
CandidateNs(k, with_addr) ==
    NextSubzoneNs(Rec(CandidateZones[k], "NS", 1, CandidateNodes[k]),
                  IF with_addr THEN <<Rec(CandidateNodes[k], "A", 1, <<10, 0, 0, k>>)>> ELSE <<>>)
CandidateSet(with_addrs) == [k \in DOMAIN with_addrs |-> CandidateNs(k, with_addrs[k])]

\* What was tried of the current candidate set: each candidate taken, with
\* the error it raised, if any.
Trying(f, tried) == [f |-> f, tried |-> tried]
Tried(ns, err) == [ns |-> ns, err |-> err]
WithLastErr(tried, e) == [tried EXCEPT ![Len(tried)].err = Some(e)]

\* A lookup of b.a. enters query_nameservers_iteratively with a candidate set.
CallQueryNameservers ==
    /\ call_fn = "none"
    /\ \E n \in 1..MaxCandidates, previous_zones \in {<<>>, <<NameBA>>} :
       \E with_addrs \in [1..n -> BOOLEAN] :
          /\ call_fn' = "query_nameservers_iteratively"
          /\ call_arg' = [next_nss |-> CandidateSet(with_addrs)]
          /\ call_ret' = Trying(ZoneHead([Lookup(NameBA, "A", previous_zones, FALSE)
                                            EXCEPT !.next_nss = CandidateSet(with_addrs)]),
                                <<>>)
    /\ UNCHANGED <<handlerVars, cacheVars, poolVars, lookupVars, serverVars>>

\* The next candidate is taken, or the first error is returned.
TryCandidate ==
    /\ call_fn = "query_nameservers_iteratively"
    /\ call_ret.f.pc = "cand"
    /\ call_ret' =
          Trying(Candidate(call_ret.f),
                 IF call_ret.f.queue = <<>> THEN call_ret.tried
                 ELSE Append(call_ret.tried,
                             Tried(Head(call_ret.f.queue),
                                   IF Candidate(call_ret.f).pc = "cand" THEN Some("SubLookupErr")
                                   ELSE None)))
    /\ UNCHANGED <<call_fn, call_arg>>
    /\ UNCHANGED <<handlerVars, cacheVars, poolVars, lookupVars, serverVars>>

\* What the sub-lookup of a candidate returns: an error, the address, or an
\* answer that holds no address of the candidate.
SubLookupResults(ns) ==
    << ErrResponse("IO"),
       OkResponse(<<Rec(NsNode(ns), "A", 1, <<10, 0, 0, 9>>)>>, <<>>, <<>>, FALSE),
       OkResponse(<<>>, <<>>, <<>>, TRUE) >>

\* The sub-lookup of the current candidate returned.
CandidateResolved ==
    /\ call_fn = "query_nameservers_iteratively"
    /\ call_ret.f.pc = "sub"
    /\ \E i \in 1..3 :
          call_ret' =
             Trying(SubReturned(call_ret.f, SubLookupResults(call_ret.f.cur)[i]),
                    IF SubReturned(call_ret.f, SubLookupResults(call_ret.f.cur)[i]).pc = "cand"
                    THEN WithLastErr(call_ret.tried, "SubLookupErr")
                    ELSE call_ret.tried)
    /\ UNCHANGED <<call_fn, call_arg>>
    /\ UNCHANGED <<handlerVars, cacheVars, poolVars, lookupVars, serverVars>>

\* The query of the current candidate returned out: an error is noted for the
\* candidate, a delegation starts a new candidate set.
CandidateQueriedWith(out, r, c) ==
    /\ call_ret' = Trying(r.f,
                          IF r.f.pc = "cand" /\ r.f.delegs # call_ret.f.delegs THEN <<>>
                          ELSE IF r.f.pc # "cand" THEN call_ret.tried
                          ELSE WithLastErr(call_ret.tried, IF out.kind = "Err" THEN out.err ELSE c.err))
    /\ call_arg' = IF r.f.pc = "cand" /\ r.f.delegs # call_ret.f.delegs
                   THEN [next_nss |-> c.next_nss] ELSE call_arg

CandidateQueriedOut(out) ==
    CandidateQueriedWith(out, AfterQuery(call_ret.f, <<>>, 0, out),
        IF out.kind = "Err" \/ NsAddrs(call_ret.f.cur) = <<>> THEN out
        ELSE perform_request(out.resp, call_ret.f.searched_node, call_ret.f.searched_kind,
                             NsZone(call_ret.f.cur)))

CandidateQueried ==
    /\ call_fn = "query_nameservers_iteratively"
    /\ call_ret.f.pc = "query"
    /\ \/ \E e \in {"IO", "MalformedResp"} : CandidateQueriedOut([kind |-> "Err", err |-> e])
       \/ \E i \in DOMAIN UpstreamResponses :
             CandidateQueriedOut([kind |-> "Ok", resp |-> UpstreamResponses[i]])
    /\ UNCHANGED call_fn
    /\ UNCHANGED <<handlerVars, cacheVars, poolVars, lookupVars, serverVars>>

\* ---- calls of save_records_in_cache, save_nss_in_cache and search_records_in_cache

\* The largest ttl of a record passed to a write, in seconds.
MaxSavedTtl == 2

\* The vectors the lookup passes to save_records_in_cache: the answers of a
\* response (one type, two records) and one alias.
SavedRecords(ttl1, ttl2) ==
    << <<Rec(NameBA, "A", ttl1, <<10, 0, 0, 1>>), Rec(NameBA, "A", ttl2, <<10, 0, 0, 2>>)>>,
       <<Rec(NameBA, "CNAME", ttl2, NameA)>> >>

\* The nameservers of a delegation passed to save_nss_in_cache.
SavedNss(ttl1, ttl2, with_addr) ==
    << NextSubzoneNs(Rec(NameA, "NS", ttl1, NameN),
                     IF with_addr
                     THEN <<Rec(NameN, "A", ttl2, <<10, 0, 0, 3>>), Rec(NameN, "A", ttl1, <<10, 0, 0, 4>>)>>
                     ELSE <<>>),
       NextSubzoneNs(Rec(NameA, "NS", ttl2, NameMA), <<>>) >>

\* The keys the lookup reads.
SearchedKeys == {<<NameBA, "A">>, <<NameBA, "CNAME">>, <<NameA, "NS">>, <<NameN, "A">>}

\* TRUE when the step before was a write under the key of records with
\* different ttls.
AfterMixedWrite(key) ==
    /\ call_fn \in {"save_records_in_cache", "save_nss_in_cache"}
    /\ key = <<call_arg.written[1].node, call_arg.written[1].record_type>>
    /\ \E i, j \in DOMAIN call_arg.written : call_arg.written[i].ttl # call_arg.written[j].ttl

\* A lookup saves the records of a response.
CallSaveRecordsInCache ==
    /\ \E ttl1 \in 1..MaxSavedTtl, ttl2 \in {0, MaxSavedTtl}, i \in 1..2 :
          /\ call_fn' = "save_records_in_cache"
          /\ call_arg' = [written |-> SavedRecords(ttl1, ttl2)[i], t |-> now]
          /\ call_ret' = None
          /\ data' = save_records_in_cache(data, now, call_arg'.written)
    /\ UNCHANGED <<now, sw_pc, sw_cleaned, g_pc, g_key, g_call, g_ret, zero_set>>
    /\ UNCHANGED <<handlerVars, poolVars, lookupVars, serverVars>>

\* A lookup saves the nameservers of a delegation.
CallSaveNssInCache ==
    /\ \E ttl1 \in 1..MaxSavedTtl, ttl2 \in {0, MaxSavedTtl}, with_addr \in BOOLEAN :
          /\ call_fn' = "save_nss_in_cache"
          /\ call_arg' = [written |-> NsRecords(SavedNss(ttl1, ttl2, with_addr)), t |-> now]
          /\ call_ret' = None
          /\ data' = save_nss_in_cache(data, now, SavedNss(ttl1, ttl2, with_addr))
    /\ UNCHANGED <<now, sw_pc, sw_cleaned, g_pc, g_key, g_call, g_ret, zero_set>>
    /\ UNCHANGED <<handlerVars, poolVars, lookupVars, serverVars>>

\* A lookup reads a key: the clock was read at before_get, get_clone holds
\* the lock now.
CallSearchRecordsInCache ==
    /\ \E key \in SearchedKeys, before_get \in 0..now :
          /\ call_fn' = "search_records_in_cache"
          /\ call_arg' = [after_mixed |-> AfterMixedWrite(key), t |-> now, key |-> key,
                          before_get |-> before_get]
          /\ call_ret' = search_records_in_cache(data, before_get, now, key[1], key[2])
          /\ data' = call_ret'.data
    /\ UNCHANGED <<now, sw_pc, sw_cleaned, g_pc, g_key, g_call, g_ret, zero_set>>
    /\ UNCHANGED <<handlerVars, poolVars, lookupVars, serverVars>>

\* ---- calls of Cache::set and Cache::get_clone by concurrent lookups

\* The ticks of the clock during the calls, and the reads of the reader.
MaxSetTicks == 2
MaxReads == 2

\* The two writers and the reader.
Writers == {1, 2}
Reader == Cardinality(Writers) + 1

\* The value each writer passes.
WrittenVals == <<"v1", "v2">>

\* The calls read the slot of one key of the map, call_ret.slot; a write of
\* the slot takes two steps, its expiry and then its value, between the lock
\* and the unlock of the caller.
SetRunning == call_fn = "Cache::set"

\* Two lookups are about to write the same key, a third reads it.
CallConcurrentSets ==
    /\ call_fn = "none"
    /\ \E ttls \in [Writers -> 0..MaxTtl] :
          /\ call_fn' = "Cache::set"
          /\ call_arg' = [ttl |-> ttls]
          /\ call_ret' = [slot |-> VacantSlot, holder |-> 0, t |-> 0,
                          pc |-> [i \in Writers \cup {Reader} |-> "start"],
                          locked_at |-> [i \in Writers |-> -1],
                          order |-> <<>>, seen |-> <<>>]
    /\ UNCHANGED <<handlerVars, cacheVars, poolVars, lookupVars, serverVars>>

\* Time passes during the calls.
SetTick ==
    /\ SetRunning
    /\ call_ret.t < MaxSetTicks
    /\ call_ret' = [call_ret EXCEPT !.t = @ + 1]
    /\ UNCHANGED <<call_fn, call_arg>>
    /\ UNCHANGED <<handlerVars, cacheVars, poolVars, lookupVars, serverVars>>

\* Cache::set: the writer takes the lock.
SetLock ==
    /\ SetRunning
    /\ \E i \in Writers :
          /\ call_ret.pc[i] = "start"
          /\ lock(call_ret.holder)
          /\ call_ret' = [call_ret EXCEPT !.holder = i, !.pc[i] = "locked",
                                          !.order = Append(@, i)]
    /\ UNCHANGED <<call_fn, call_arg>>
    /\ UNCHANGED <<handlerVars, cacheVars, poolVars, lookupVars, serverVars>>

\* Cache::set: the clock is read, the entry built, and its expiry stored in the slot.
SetStoreExpiry ==
    /\ SetRunning
    /\ \E i \in Writers :
          /\ call_ret.pc[i] = "locked"
          /\ call_ret' = [call_ret EXCEPT
                             !.slot.exp = SetEntry(call_ret.t, call_arg.ttl[i], WrittenVals[i]).exp,
                             !.locked_at[i] = call_ret.t,
                             !.pc[i] = "storing"]
    /\ UNCHANGED <<call_fn, call_arg>>
    /\ UNCHANGED <<handlerVars, cacheVars, poolVars, lookupVars, serverVars>>

\* Cache::set: the value of the entry is stored in the slot.
SetStoreValue ==
    /\ SetRunning
    /\ \E i \in Writers :
          /\ call_ret.pc[i] = "storing"
          /\ call_ret' = [call_ret EXCEPT
                             !.slot.val = SetEntry(call_ret.locked_at[i], call_arg.ttl[i], WrittenVals[i]).val,
                             !.pc[i] = "stored"]
    /\ UNCHANGED <<call_fn, call_arg>>
    /\ UNCHANGED <<handlerVars, cacheVars, poolVars, lookupVars, serverVars>>

\* Cache::set returns: the guard is dropped.
SetUnlock ==
    /\ SetRunning
    /\ \E i \in Writers :
          /\ call_ret.pc[i] = "stored"
          /\ call_ret' = [call_ret EXCEPT !.holder = 0, !.pc[i] = "done"]
    /\ UNCHANGED <<call_fn, call_arg>>
    /\ UNCHANGED <<handlerVars, cacheVars, poolVars, lookupVars, serverVars>>

\* Cache::get_clone: the reader takes the lock.
GetLock ==
    /\ SetRunning
    /\ call_ret.pc[Reader] = "start"
    /\ Len(call_ret.seen) < MaxReads
    /\ lock(call_ret.holder)
    /\ call_ret' = [call_ret EXCEPT !.holder = Reader, !.pc[Reader] = "locked"]
    /\ UNCHANGED <<call_fn, call_arg>>
    /\ UNCHANGED <<handlerVars, cacheVars, poolVars, lookupVars, serverVars>>

\* Cache::get_clone: the entry of the key is cloned, and the guard dropped.
GetCloneEntry ==
    /\ SetRunning
    /\ call_ret.pc[Reader] = "locked"
    /\ call_ret' = [call_ret EXCEPT !.holder = 0, !.pc[Reader] = "start",
                                    !.seen = Append(@, call_ret.slot)]
    /\ UNCHANGED <<call_fn, call_arg>>
    /\ UNCHANGED <<handlerVars, cacheVars, poolVars, lookupVars, serverVars>>

\* ---- one server loop with its worker pool (start_udp_server, start_tcp_server)

\* The server whose loop and pool are followed.
Serving(s) == call_fn = "serve" /\ call_arg.server = s

\* start_servers: one server binds its socket and enters its loop, its pool
\* made; the other fails to bind and returns. This is the only way a server
\* function returns while the stop flag is not set.
ServeBind ==
    /\ \A x \in Servers : s_pc[x] = "bind"
    /\ call_fn = "none"
    /\ \E s \in Servers :
          /\ s_pc' = [x \in Servers |-> IF x = s THEN "blocked" ELSE "notify"]
          /\ s_bound' = [x \in Servers |-> x = s]
          /\ call_fn' = "serve"
          /\ call_arg' = [server |-> s]
          /\ call_ret' = [after_stop |-> FALSE, handed_after_stop |-> FALSE, discarded |-> 0]
    /\ UNCHANGED <<s_pending, stop, c_pc, c_got, tx_sent, clients>>
    /\ UNCHANGED <<handlerVars, cacheVars, poolVars, lookupVars>>

\* recv_from / accept returns a datagram or a connection; call_ret.after_stop
\* records whether the stop flag was set by then.
LoopReceive ==
    /\ \E s \in Servers :
          /\ Serving(s)
          /\ s_pc[s] = "blocked"
          /\ s_pending[s] > 0
          /\ s_pending' = [s_pending EXCEPT ![s] = @ - 1]
          /\ s_pc' = [s_pc EXCEPT ![s] = "check"]
    /\ call_ret' = [call_ret EXCEPT !.after_stop = stop]
    /\ UNCHANGED <<call_fn, call_arg>>
    /\ UNCHANGED <<s_bound, stop, c_pc, c_got, tx_sent, clients>>
    /\ UNCHANGED <<handlerVars, cacheVars, poolVars, lookupVars>>

\* stop.load: with the flag set the message is discarded and the pool is
\* about to be dropped; otherwise the message goes on to the pool, unless
\* the UDP server cannot clone its socket, which makes it loop.
LoopLoadStop ==
    /\ \E s \in Servers :
          /\ Serving(s)
          /\ s_pc[s] = "check"
          /\ IF stop
             THEN /\ s_pc' = [s_pc EXCEPT ![s] = "drop"]
                  /\ call_ret' = [call_ret EXCEPT !.discarded = @ + 1]
             ELSE /\ \E cloned \in {TRUE, s = "tcp"} :
                        s_pc' = [s_pc EXCEPT ![s] = IF cloned THEN "execute" ELSE "blocked"]
                  /\ UNCHANGED call_ret
    /\ UNCHANGED <<call_fn, call_arg>>
    /\ UNCHANGED <<s_bound, s_pending, stop, c_pc, c_got, tx_sent, clients>>
    /\ UNCHANGED <<handlerVars, cacheVars, poolVars, lookupVars>>

\* threads_pool.execute: the job is sent to the workers; the send fails, and
\* the server thread panics, when no worker thread is left.
LoopExecute ==
    /\ \E s \in Servers :
          /\ Serving(s)
          /\ s_pc[s] = "execute"
          /\ p_sent < MaxJobs
          /\ IF LiveWorkers = {}
             THEN /\ p_main' = "panicked"
                  /\ p_sender' = FALSE
                  /\ s_pc' = [s_pc EXCEPT ![s] = "panicked"]
                  /\ UNCHANGED <<p_queue, p_sent, call_ret>>
             ELSE /\ \E panics \in BOOLEAN : p_queue' = Append(p_queue, Job(p_sent + 1, panics))
                  /\ p_sent' = p_sent + 1
                  /\ s_pc' = [s_pc EXCEPT ![s] = "blocked"]
                  /\ call_ret' = [call_ret EXCEPT !.handed_after_stop = @ \/ call_ret.after_stop]
                  /\ UNCHANGED <<p_main, p_sender>>
    /\ UNCHANGED <<call_fn, call_arg>>
    /\ UNCHANGED <<p_lock, p_poisoned, p_joined, p_done, w_pc, w_job>>
    /\ UNCHANGED <<s_bound, s_pending, stop, c_pc, c_got, tx_sent, clients>>
    /\ UNCHANGED <<handlerVars, cacheVars, lookupVars>>

\* drop(threads_pool), first loop.
LoopDropSend ==
    /\ \E s \in Servers : Serving(s) /\ s_pc[s] = "drop"
    /\ DropSend

\* drop(threads_pool), second loop.
LoopDropJoin ==
    /\ \E s \in Servers : Serving(s) /\ s_pc[s] = "drop"
    /\ DropJoin

\* The drop of the pool has ended: the server function returns and its
\* socket is closed, or the panic of the drop unwinds the server thread.
LoopReturn ==
    /\ \E s \in Servers :
          /\ Serving(s)
          /\ s_pc[s] = "drop"
          /\ p_main \in {"dropped", "panicked"}
          /\ s_pc' = [s_pc EXCEPT ![s] = IF p_main = "dropped" THEN "notify" ELSE "panicked"]
          /\ s_bound' = [s_bound EXCEPT ![s] = FALSE]
          /\ s_pending' = [s_pending EXCEPT ![s] = 0]
    /\ UNCHANGED <<stop, c_pc, c_got, tx_sent, clients>>
    /\ UNCHANGED <<handlerVars, cacheVars, poolVars, lookupVars, callVars>>

\* ---- calls of Record::decode_from_buf on records with any rdlength

\* The record types whose data holds a name.
NameBearingKinds == {"NS", "CNAME", "PTR", "MX", "SOA"}

\* The names of the fixtures, the root apart.
RdNames == {NameA, NameBA}

\* The rdlength values tried for data of n bytes: around n and around the
\* values from which rdlength * 8 no longer fits a u16.
RdLengths(n) ==
    {0, n - 1, n, n + 1, 255, 8191, 8192, 8192 + n, 8193 + n, 16384 + n, LastU16 - 8191 + n, LastU16}

\* The bytes of the record with data_len written as its rdlength.
WithRdLength(rec, data_len) ==
    to_bytes(rec.node) \o U16Bytes(RecordTypeToNum(rec.record_type)) \o U16Bytes(1)
        \o U32Bytes(rec.ttl) \o U16Bytes(data_len) \o encode_data(rec).bytes

\* A record off the wire is decoded; call_arg.consumed is the number of
\* bytes of its data.
CallDecodeRdLengthWith(rec, data_len, checked) ==
    /\ call_fn' = "decode_from_buf"
    /\ call_arg' = [rec |-> rec, data_len |-> data_len, checked |-> checked,
                    consumed |-> Len(encode_data(rec).bytes)]
    /\ call_ret' = record_decode_from_buf(WithRdLength(rec, data_len), 0, checked)

CallDecodeRdLength ==
    /\ call_fn = "none"
    /\ \E kind \in NameBearingKinds, node \in RdNames, name \in RdNames, k \in 1..MaxVariant,
          checked \in BOOLEAN :
          \E data_len \in RdLengths(Len(encode_data(Rec(node, kind, 300, RecordData(kind, k, name))).bytes)) :
             CallDecodeRdLengthWith(Rec(node, kind, 300, RecordData(kind, k, name)), data_len, checked)
    /\ UNCHANGED <<handlerVars, cacheVars, poolVars, lookupVars, serverVars>>

\* ---- calls of parse_auth_zone_file on a file with an include between two records

MaxChildEntries == 2

\* The entries of the included file: origin directives, records of the
\* current origin with or without a TTL, a record of another node.
ChildEntries ==
    { RecordEntry(None, t, None, "A", AddressData) : t \in FileTtls }
    \cup { OriginEntry(NameCA),
           RecordEntry(Some(NameSA), Some(MaxFileTtl), None, "A", AddressData) }

ChildFiles == UNION { [1..n -> ChildEntries] : n \in 0..MaxChildEntries }

\* The file: the SOA record, a record with its TTL, an origin directive, the
\* include with or without an origin, and a last record of the current
\* origin, with or without a TTL.
AroundInclude(m, ttl, origin, child, child_origin, last_ttl) ==
    << RecordEntry(None, Some(MaxFileTtl), Some("IN"), "SOA", SoaData(m)),
       RecordEntry(Some(NameXA), Some(ttl), None, "A", AddressData),
       OriginEntry(origin),
       IncludeEntry(Some(child), child_origin),
       RecordEntry(None, last_ttl, None, "A", AddressData) >>

\* The zone file a. with an include is parsed.
CallParseIncludedFile ==
    /\ call_fn = "none"
    /\ \E m \in SoaMinimums, ttl \in 1..MaxFileTtl, origin \in {NameA, NameXA},
          child \in ChildFiles, child_origin \in {None, Some(NameMA)}, last_ttl \in FileTtls :
          /\ call_fn' = "parse_included_file"
          /\ call_arg' = [zone |-> NameA, sub_zones |-> <<NameBA>>, starting_ttl |-> 0,
                          file |-> Some(AroundInclude(m, ttl, origin, child, child_origin, last_ttl))]
          /\ call_ret' = parse_auth_zone_file(call_arg')
    /\ UNCHANGED <<handlerVars, cacheVars, poolVars, lookupVars, serverVars>>

\* ------------------------------------------------------------------ specifications

Init == HandlerInit /\ CacheInit /\ PoolInit /\ LookupInit /\ ServersInit /\ CallInit

HandlerNext == Receive \/ HandleRequest

\* The request handler: requests arrive and are handled.
SpecHandler == Init /\ [][HandlerNext]_vars

CacheNext ==
    \/ Tick
    \/ Set
    \/ Remove
    \/ Clean
    \/ GetCall
    \/ GetReturn
    \/ SweeperWake
    \/ SweeperClean

\* The cache used by any number of threads, with its sweeper.
SpecCache == Init /\ [][CacheNext]_vars

\* The same, the sweeper thread being scheduled: its sleep ends and its
\* clean(), once it holds the lock, completes.
SpecCacheFair == SpecCache /\ WF_vars(SweeperWake) /\ WF_vars(SweeperClean)

PoolNext ==
    \/ Execute
    \/ WorkerLock
    \/ WorkerRecv
    \/ WorkerRun
    \/ DropSend
    \/ DropJoin

\* The worker pool: jobs are handed to it, it is dropped.
SpecPool == Init /\ [][PoolNext]_vars

LookupNext ==
    \/ StartLookup
    \/ BeginIteration
    \/ ProbeAnswers
    \/ ProbeCnames
    \/ ChooseNameservers
    \/ NextCandidate
    \/ SubLookupReturns
    \/ Query
    \/ LookupReturns
    \/ Tick
    \/ ConcurrentSave
    \/ ConcurrentSearch

\* Lookups performed one after the other by a worker, while time passes and
\* the lookups of other workers use the cache.
SpecLookup == Init /\ [][LookupNext]_vars

SubLookupsNext ==
    \/ StartLookup
    \/ BeginIteration
    \/ ProbeAnswers
    \/ ProbeCnames
    \/ ChooseNameservers
    \/ NextCandidate
    \/ SubLookupReturns
    \/ QueryDelegating
    \/ LookupReturns

\* Lookups whose candidates have to be resolved by sub-lookups.
SpecSubLookups == Init /\ [][SubLookupsNext]_vars

ServerStep(s) == Bind(s) \/ Unblock(s) \/ CheckStop(s) \/ Notify(s)

CoordStep == CoordRecvFirst \/ CoordStore \/ CoordKickUdp \/ CoordKickTcp \/ CoordRecvSecond

ServersNext ==
    \/ \E s \in Servers : Bind(s)
    \/ \E s \in Servers : Unblock(s)
    \/ \E s \in Servers : CheckStop(s)
    \/ \E s \in Servers : Notify(s)
    \/ \E s \in Servers : ClientSends(s)
    \/ CoordRecvFirst
    \/ CoordStore
    \/ CoordKickUdp
    \/ CoordKickTcp
    \/ CoordRecvSecond
    \/ CoordTimeout

SpecServers == Init /\ [][ServersNext]_vars

\* The three threads are scheduled: a thread that can take a step takes it.
\* Nothing obliges a client to send, nor the timeout to elapse.
SpecServersFair ==
    /\ SpecServers
    /\ \A s \in Servers : WF_vars(ServerStep(s))
    /\ WF_vars(CoordStep)

SpecNameserver == Init /\ [][CallNsHandler]_vars

NameNext == CallToBytes \/ CallFromBytes \/ FromBytesLoop \/ FromBytesReturn
SpecRecord == Init /\ [][CallEncodeToBuf]_vars
SpecMessage == Init /\ [][CallDecodeSections]_vars
SpecZones == Init /\ [][CallParseZoneFilesOne \/ CallParseZoneFilesTwo]_vars
SpecName == Init /\ [][NameNext]_vars
\* The decoder, once called, runs by itself.
SpecNameFair == SpecName /\ WF_vars(FromBytesLoop) /\ WF_vars(FromBytesReturn)

SpecInZone == Init /\ [][CallIsInZone]_vars

\* The classification of the responses of upstream nameservers.
SpecClassify == Init /\ [][CallPerformRequest]_vars

\* Bits written to a buffer at any position and read back.
SpecBits == Init /\ [][CallWriteBits \/ CallWriteBitsAgain]_vars

\* The tokens of a zone file are read one after the other.
SpecTokens == Init /\ [][CallTokenizerFirst \/ CallTokenizerNext]_vars

\* The parser of the authoritative zone file alone.
SpecAuthZone == Init /\ [][CallParseAuthZoneFile \/ CallParseAuthZoneFileIncluding]_vars

\* The retries of the query of one nameserver.
SpecRetries == Init /\ [][CallSendQueryWithRetries \/ SendQueryAttempt]_vars

\* The probe of the cache for nameservers alone.
SpecNsProbe == Init /\ [][CallSearchNssInCache]_vars

\* The candidates of one lookup, set after set.
SpecCandidates ==
    Init /\ [][CallQueryNameservers \/ TryCandidate \/ CandidateResolved \/ CandidateQueried]_vars

\* The record cache under writes and reads of lookups, the clock and the sweeper's clean.
SpecRecordCache ==
    Init /\ [][CallSaveRecordsInCache \/ CallSaveNssInCache \/ CallSearchRecordsInCache
               \/ Tick \/ Clean]_vars

\* Two writes and reads of one key of the cache by concurrent lookups.
SpecCacheLock ==
    Init /\ [][CallConcurrentSets \/ SetTick \/ SetLock \/ SetStoreExpiry \/ SetStoreValue
               \/ SetUnlock \/ GetLock \/ GetCloneEntry]_vars

\* One server loop with its pool, the clients, and the coordinator that
\* sets the stop flag and kicks the servers once the other server is gone.
ServeNext ==
    \/ ServeBind
    \/ LoopReceive
    \/ LoopLoadStop
    \/ LoopExecute
    \/ LoopDropSend
    \/ LoopDropJoin
    \/ LoopReturn
    \/ WorkerLock
    \/ WorkerRecv
    \/ WorkerRun
    \/ \E s \in Servers : Notify(s)
    \/ \E s \in Servers : ClientSends(s)
    \/ CoordRecvFirst
    \/ CoordStore
    \/ CoordKickUdp
    \/ CoordKickTcp
    \/ CoordRecvSecond
    \/ CoordTimeout

SpecServeLoop == Init /\ [][ServeNext]_vars

SpecRdLength == Init /\ [][CallDecodeRdLength]_vars

SpecInclude == Init /\ [][CallParseIncludedFile]_vars

\* ------------------------------------------------------------------ claims on the handler

\* A request with a supported header and exactly one, complete question whose
\* type number is unknown to the type table or known but unsupported.
SingleQuestionOfBadType(w) ==
    /\ ~w.io /\ w.header.complete
    /\ w.header.op = 0 /\ w.header.qr = 0
    /\ w.header.qd = 1 /\ w.header.an = 0 /\ w.header.ns = 0 /\ w.header.ar = 0
    /\ Len(w.questions) = 1
    /\ w.questions[1].name_res = "ok"
    /\ w.questions[1].typ # Cut /\ w.questions[1].cls = 1
    /\ LET t == RecordTypeFromNum(w.questions[1].typ) IN
       ~t.ok \/ ~is_supported_for_question(t.val)

\* C1: a request whose single question carries an unknown or an unsupported
\* type is answered with exactly one reply, of RCODE NotImp and with the id of
\* the request, and the handler does not end without replying.
C1_BadTypeAnsweredNotImp ==
    (h_pc = "done" /\ SingleQuestionOfBadType(h_req)) =>
        /\ ~h_panicked
        /\ Len(h_sent) = 1
        /\ h_sent[1].header.resp_code = "NotImp"
        /\ h_sent[1].header.id = h_req.header.id

\* C2: on HeaderOnly the handler sends exactly one reply with the id of the
\* request, RCODE NotImp when the cause is an unsupported opcode, class or type
\* and FormErr otherwise, and no questions and no records; on ParseErr and on
\* IoErr it sends nothing.
C2_HeaderOnlyReply ==
    h_pc = "done" =>
        /\ h_read.kind = "HeaderOnly" =>
              /\ Len(h_sent) = 1
              /\ h_sent[1].header.id = h_req.header.id
              /\ h_sent[1].header.resp_code =
                    (IF h_read.err.err \in {"UnsupportedOpCode", "UnsupportedClass", "UnsupportedType"}
                     THEN "NotImp" ELSE "FormErr")
              /\ h_sent[1].questions = <<>> /\ h_sent[1].answers = <<>>
              /\ h_sent[1].authorities = <<>> /\ h_sent[1].additionals = <<>>
        /\ h_read.kind \in {"ParseErr", "IoErr"} => h_sent = <<>>

\* ------------------------------------------------------------------ claims on the cache

\* C7: under any interleaving of the cache operations and the sweeper,
\* get_clone returns a clone only of the entry it found and only when that
\* entry expires later than the time of the call; an entry found with
\* expires_at <= now is removed from the map and None is returned; and a
\* get_clone on a key whose latest set had ttl = 0 returns None.
C7_GetCloneNeverExpired ==
    (g_pc = "idle" /\ g_ret # NoRet) =>
        /\ g_ret.res # None =>
              /\ g_ret.res = g_ret.found
              /\ g_ret.res[1].exp > g_call
        /\ (g_ret.found # None /\ g_ret.found[1].exp <= g_ret.at) =>
              /\ g_ret.res = None
              /\ ~g_ret.present_after
        /\ g_ret.zero => g_ret.res = None

\* A get_clone found the entry that a set with ttl = 0 had stored and that
\* no sweep had removed yet, after the caller waited for the lock.
C7_Witness ==
    /\ g_pc = "idle"
    /\ g_ret # NoRet
    /\ g_ret.zero
    /\ g_ret.found # None
    /\ g_ret.res = None
    /\ g_call < g_ret.at

\* C9: a clean() of the sweeper removes every entry that is expired when it
\* runs and no other entry; and, the sweeper running, an expired entry is
\* eventually removed from the map unless it is overwritten.
C9_SweeperRemovesExpired ==
    /\ [][(sw_pc = "cleaning" /\ sw_pc' = "sleeping") =>
            /\ DOMAIN data' = {k \in DOMAIN data : data[k].exp > now}
            /\ \A k \in DOMAIN data' : data'[k] = data[k]]_vars
    /\ \A k \in CacheKeys :
          (k \in DOMAIN data /\ data[k].exp <= now)
             ~> (k \notin DOMAIN data \/ data[k].exp > now)

\* The sweeper removed an expired entry and kept one that was not expired.
C9_Witness ==
    /\ sw_pc = "sleeping"
    /\ sw_cleaned # {}
    /\ \E k \in DOMAIN data : data[k].exp > now

\* ------------------------------------------------------------------ claims on the worker pool

\* C10: a job that panics does not affect the pool: until the pool is
\* dropped the number of live workers equals the pool size, the owner of the
\* pool never panics in execute or in drop, and once drop has returned every
\* job that does not panic itself was executed.
C10_PanicLeavesPoolIntact ==
    /\ p_main = "running" => Cardinality(LiveWorkers) = PoolSize
    /\ p_main # "panicked"
    /\ p_main = "dropped" =>
          \A id \in 1..p_sent : id \in p_done \/ \E w \in Workers : w_job[w] = Job(id, TRUE)

\* The Stop messages still in the channel.
StopsQueued == Cardinality({i \in DOMAIN p_queue : p_queue[i] = Stop})

\* C11: drop enqueues one Stop per worker behind the jobs enqueued earlier,
\* each worker consumes exactly one Stop and exits (no worker is lost on the
\* way), and drop returns only with every worker joined, the channel empty
\* and every job enqueued before it executed, no job being run by two workers.
C11_DropRunsEveryJob ==
    /\ p_main \in {"joining", "dropped"} =>
          /\ StopsQueued + Cardinality({w \in Workers : w_pc[w] = "exited"}) = PoolSize
          /\ \A i \in DOMAIN p_queue : p_queue[i] = Stop => \A j \in i..Len(p_queue) : p_queue[j] = Stop
          /\ \A w \in Workers : w_pc[w] # "dead"
    /\ p_main = "dropped" =>
          /\ \A w \in Workers : w_pc[w] = "exited"
          /\ p_joined = PoolSize
          /\ p_queue = <<>>
          /\ p_done = 1..p_sent
    /\ \A v, w \in Workers :
          (v # w /\ w_pc[v] = "run" /\ w_pc[w] = "run") => w_job[v].id # w_job[w].id

\* ------------------------------------------------------------------ claims on the lookup

\* The node a lookup searches after the CNAMEs it followed.
FinalNode(f) == IF f.followed = <<>> THEN f.req_node ELSE f.followed[Len(f.followed)].data

\* In a successful result every answer after the followed CNAMEs is owned by
\* the final searched node and has the requested type.
AnswersMatch(f) ==
    f.result.kind = "Ok" =>
        \A i \in (Len(f.followed) + 1)..Len(f.result.answers) :
            /\ f.result.answers[i].node = FinalNode(f)
            /\ f.result.answers[i].record_type = f.searched_kind

\* C3: in every successful lookup result, every answer record that is not one
\* of the followed CNAMEs has owner name equal to the final searched node and
\* type equal to the requested type.
C3_AnswersMatchRequest ==
    /\ \A i \in DOMAIN lk : AnswersMatch(lk[i])
    /\ l_result # NoResult => AnswersMatch(l_result)

\* The lookup has just met a CNAME whose target is the owner of a CNAME it
\* had collected before.
LoopMet(f) ==
    /\ f.met # None
    /\ \E i \in DOMAIN f.met[1].before : f.met[1].before[i].node = f.met[1].rec.data

\* C4: a lookup that meets, in the cache or in an upstream response, a CNAME
\* whose target is the owner of a CNAME already collected fails at once with
\* CnamesLoop, previous_cnames is left as it was, and the step that meets the
\* record leaves the cache as it was.
C4_CnamesLoopDetected ==
    /\ [](\A i \in DOMAIN lk :
            LoopMet(lk[i]) =>
                /\ lk[i].result = ErrResponse("CnamesLoop")
                /\ lk[i].previous_cnames = lk[i].met[1].before)
    /\ [][(lk # <<>> /\ Len(lk') = Len(lk) /\ ~LoopMet(lk[Len(lk)]) /\ LoopMet(lk'[Len(lk)]))
            => data' = data]_vars

\* A lookup met in the cache a CNAME that closes a loop.
C4_Witness ==
    /\ lk # <<>>
    /\ LoopMet(Top)
    /\ Top.probes[Len(Top.probes)] = [kind |-> "CNAME", hit |-> TRUE]
    /\ Top.result = ErrResponse("CnamesLoop")

\* The budget of the outer loop in one lookup.
BudgetKept(f) ==
    /\ f.iter <= max_cname_redir
    /\ f.iter <= Len(f.followed) + 1
    /\ f.result = ErrResponse("MaxCnameRedir") => Len(f.followed) >= max_cname_redir
    /\ (f.pc = "done" /\ Len(f.followed) = max_cname_redir) =>
            f.result = ErrResponse("MaxCnameRedir")

\* C5: the outer loop of a lookup begins at most max_cname_redir iterations,
\* each iteration after the first being due to a CNAME followed; the lookup
\* fails with MaxCnameRedir once max_cname_redir CNAMEs were followed and
\* never with fewer, whatever the number of delegations it followed.
C5_CnameBudget ==
    /\ \A i \in DOMAIN lk : BudgetKept(lk[i])
    /\ l_result # NoResult => BudgetKept(l_result)

\* A lookup that followed a delegation used up its budget of CNAMEs.
C5_Witness ==
    /\ l_result # NoResult
    /\ l_result.result = ErrResponse("MaxCnameRedir")
    /\ l_result.delegs > 0

\* Two sequences hold the same records in the same order.
SameRecords(xs, ys) ==
    /\ Len(xs) = Len(ys)
    /\ \A i \in DOMAIN xs : xs[i].record_type = ys[i].record_type /\ xs[i] = ys[i]

\* The cache probes of the current iteration of a lookup, and its result
\* when the first one hit.
ProbesInOrder(f) ==
    /\ Len(f.probes) <= 2
    /\ Len(f.probes) >= 1 => f.probes[1].kind = f.searched_kind
    /\ Len(f.probes) = 2 => (~f.probes[1].hit /\ f.probes[2].kind = "CNAME")
    /\ (f.queried \/ f.pc \in {"nss", "cand", "sub", "query"}) =>
            (Len(f.probes) = 2 /\ ~f.probes[2].hit)
    /\ (Len(f.probes) = 1 /\ f.probes[1].hit) =>
            /\ f.result.kind = "Ok"
            /\ SameRecords(f.result.answers, f.followed \o l_hit.records)
            /\ f.result.authorities = <<>>
            /\ f.result.additionals = <<>>
            /\ ~f.result.no_domain
            /\ ~f.queried

\* C6: in each iteration the cache is probed for the searched type first and
\* for a CNAME second, and upstream nameservers are queried only when both
\* probes miss; when the first probe hits, the lookup returns the CNAMEs
\* followed, in order, then the cached records, with no_domain = FALSE and
\* without any upstream query in that iteration.
C6_CacheBeforeUpstream ==
    /\ \A i \in DOMAIN lk : ProbesInOrder(lk[i])
    /\ l_result # NoResult => ProbesInOrder(l_result)

\* A lookup followed a CNAME and then found the records in the cache.
C6_Witness ==
    /\ l_result # NoResult
    /\ l_result.followed # <<>>
    /\ l_result.probes = <<[kind |-> l_result.searched_kind, hit |-> TRUE]>>
    /\ l_result.result.kind = "Ok"

\* C8: the records of a cache hit carry the whole seconds between the read
\* and the expiry of the entry, never more than the ttl stored in the entry,
\* and never more than what the previous read of the same entry returned.
C8_TtlDecays ==
    l_hit # NoHit =>
        /\ \A i \in DOMAIN l_hit.records :
              /\ l_hit.records[i].ttl = (l_hit.exp - l_hit.before) \div TicksPerSec
              /\ l_hit.records[i].ttl <= l_hit.stored
        /\ l_hit.prev # None => l_hit.records[1].ttl <= l_hit.prev[1]

\* ------------------------------------------------------------------ claims on the servers

\* C12: whenever a server loop has exited, eventually the stop flag is set,
\* the other server loop has exited too and the coordinator has received
\* both completion notifications.
C12_BothServersExit ==
    \A s \in Servers :
        (s_pc[s] = "exited") ~> (stop /\ (\A t \in Servers : s_pc[t] = "exited") /\ c_got = 2)

\* ------------------------------------------------------------------ claims on the nameserver

\* The request the nameserver decoded, the zones it serves, and its reply.
NsRequest == MessageDecodeFromBytes(call_arg.bytes)
NsZones == ManagedZones[call_arg.zones]
NsReplied == Len(call_ret.out.sent) = 1 /\ ~call_ret.out.panicked
NsSent == call_ret.out.sent[1]

\* The reply carries the code, the authoritative flag and the sections.
NsReplyIs(rcode, aa, answers, authorities) ==
    /\ NsSent.header.resp_code = rcode
    /\ NsSent.header.auth_answer = aa
    /\ SameRecords(NsSent.answers, answers)
    /\ SameRecords(NsSent.authorities, authorities)

\* The reply the first matching rule gives for the question q.
NsFirstMatch(h, q) ==
    IF h.query_resp \/ h.answers_count # 0 \/ h.authorities_count # 0
    THEN NsSent.header.resp_code = "FormErr"
    ELSE IF ~is_in_zone(q.node, NsZones.auth_zone.zone)
    THEN NsSent.header.resp_code = "Refused"
    ELSE IF \E i \in DOMAIN NsZones.sub_zones : is_in_zone(q.node, NsZones.sub_zones[i].zone)
    THEN call_ret.decision.by = "handle_subzone"
    ELSE IF ZoneGet(NsZones.auth_zone, q.node, q.record_type) # <<>>
    THEN NsReplyIs("NoError", TRUE, ZoneGet(NsZones.auth_zone, q.node, q.record_type), <<>>)
    ELSE IF ZoneGet(NsZones.auth_zone, q.node, "CNAME") # <<>>
    THEN NsReplyIs("NoError", TRUE, ZoneGet(NsZones.auth_zone, q.node, "CNAME"), <<>>)
    ELSE NsReplyIs("NxDomain", TRUE, <<>>,
                   <<ZoneGet(NsZones.auth_zone, NsZones.auth_zone.zone, "SOA")[1]>>)

\* C13: for a request that decodes and counts one question the nameserver
\* sends exactly one reply, the one of the first matching rule: FormErr (QR
\* set, or answer or authority count not zero), Refused (name outside the
\* zone), a referral (name in a sub-zone), the records of the name and type
\* with AA, else the CNAME of the name with AA, else NxDomain with AA and the
\* SOA of the zone as the only authority.
C13_NsFirstMatch ==
    (call_fn = "handle_dns_request" /\ NsRequest.ok /\ NsRequest.val.header.questions_count = 1) =>
        /\ NsReplied
        /\ NsRequest.val.questions # <<>>
        /\ NsFirstMatch(NsRequest.val.header, NsRequest.val.questions[1])

\* The referral sent: the sub-zone with index i contains the name asked for
\* and the authorities are all the NS records at its top.
ReferralAuthorities(q, i) ==
    /\ is_in_zone(q.node, NsZones.sub_zones[i].zone)
    /\ SameRecords(NsSent.authorities,
                   ZoneGet(NsZones.sub_zones[i], NsZones.sub_zones[i].zone, "NS"))

\* The record is an A record stored in some sub-zone for a name that lies
\* inside that sub-zone and that is the target of one of the authorities.
IsStoredGlue(rec) ==
    /\ rec.record_type = "A"
    /\ \E j \in DOMAIN NsSent.authorities : NsSent.authorities[j].data = rec.node
    /\ \E i \in DOMAIN NsZones.sub_zones :
          /\ is_in_zone(rec.node, NsZones.sub_zones[i].zone)
          /\ \E r \in DOMAIN NsZones.sub_zones[i].records :
                /\ NsZones.sub_zones[i].records[r].record_type = "A"
                /\ NsZones.sub_zones[i].records[r] = rec

\* The additionals are exactly the stored glue records.
ReferralAdditionals ==
    /\ \A k \in DOMAIN NsSent.additionals : IsStoredGlue(NsSent.additionals[k])
    /\ \A i \in DOMAIN NsZones.sub_zones : \A r \in DOMAIN NsZones.sub_zones[i].records :
          IsStoredGlue(NsZones.sub_zones[i].records[r]) =>
              \E k \in DOMAIN NsSent.additionals :
                  NsSent.additionals[k] = NsZones.sub_zones[i].records[r]
    /\ \A k, l \in DOMAIN NsSent.additionals :
          NsSent.additionals[k] = NsSent.additionals[l] => k = l

NsCountsMatch ==
    /\ NsSent.header.questions_count = Len(NsSent.questions)
    /\ NsSent.header.answers_count = Len(NsSent.answers)
    /\ NsSent.header.authorities_count = Len(NsSent.authorities)
    /\ NsSent.header.additionals_count = Len(NsSent.additionals)

NsReferred == call_fn = "handle_dns_request" /\ call_ret.decision.do = "reply"
                /\ call_ret.decision.by = "handle_subzone"

\* C14: a referral is sent with AA = 0 and RCODE NoError, without answers,
\* with all the NS records at the top of the sub-zone containing the name as
\* authorities, with exactly the A records stored for the targets of those NS
\* records that lie inside some sub-zone as additionals, and with header
\* counts equal to the lengths of the sections.
C14_Referral ==
    NsReferred =>
        /\ NsReplied
        /\ ~NsSent.header.auth_answer
        /\ NsSent.header.resp_code = "NoError"
        /\ NsSent.answers = <<>>
        /\ \E i \in DOMAIN NsZones.sub_zones : ReferralAuthorities(NsRequest.val.questions[1], i)
        /\ ReferralAdditionals
        /\ NsCountsMatch

\* A referral with two nameservers, one of them with glue.
C14_Witness ==
    /\ NsReferred
    /\ NsReplied
    /\ Len(NsSent.authorities) = 2
    /\ Len(NsSent.additionals) = 1
    /\ NsSent.additionals[1].node = NsSent.authorities[2].data

\* ------------------------------------------------------------------ claims on the name codec

NameDecoding == call_fn = "from_bytes"
NameReturned == NameDecoding /\ call_ret.pc = "done"
NameEnded == NameDecoding /\ call_ret.pc \in {"done", "panicked"}

\* The zero bytes of the buffer.
ZeroBytes(buf) == { i \in DOMAIN buf : buf[i] = 0 }

\* C15: the bytes of an encoded valid name, the root included, end with the
\* only zero byte they hold, and decoding them returns the name with the
\* read position at their end.
C15_NameRoundTrip ==
    (NameDecoding /\ call_arg.name # None) =>
        /\ ZeroBytes(call_arg.buf) = {Len(call_arg.buf)}
        /\ call_ret.pc # "panicked"
        /\ call_ret.pc = "done" =>
              /\ call_ret.res = Ok(call_arg.name[1])
              /\ call_ret.pos = BufLast(call_arg.buf)

\* C17: the decoder follows at most 15 pointers, a 16th jump failing with
\* MaxRedir, and every decoding ends.
C17_PointerLimit ==
    /\ [](NameDecoding => call_ret.n_jumps <= 15)
    /\ [](NameDecoding /\ call_ret.n_jumps = 15 /\ call_ret.pc = "loop"
            /\ call_ret.pos + 8 <= BufLast(call_arg.buf)
            /\ ByteAt(call_arg.buf, call_ret.pos) \div 64 = 3
          => NameLoop(call_arg.buf, call_ret, call_arg.checked).res = Err("MaxRedir"))
    /\ (NameDecoding ~> NameEnded)

\* C18: decoding a name with a label whose length byte is 64 fails with
\* LongLabel.
C18_LongLabel ==
    (NameDecoding /\ call_ret.pc # "loop" /\ call_ret.len_byte = 64) =>
        (call_ret.pc = "done" /\ call_ret.res = Err("LongLabel"))

\* ------------------------------------------------------------------ claims on the record codec

\* The bytes of the encoded record before its data: the owner, the type,
\* the class, the TTL and the data length.
RecordHead(rec) == Len(to_bytes(rec.node)) + 10

\* The data length written in the encoded record.
WrittenDataLen(rec, bytes) == bytes[RecordHead(rec) - 1] * 256 + bytes[RecordHead(rec)]

\* The decoded record is the record encoded.
SameRecord(dec, rec) ==
    /\ dec.record_type = rec.record_type
    /\ dec.node = rec.node
    /\ dec.class = rec.class
    /\ dec.ttl = rec.ttl
    /\ dec.data = rec.data

\* C16: for a record of every supported variant and of class IN the data
\* length written is the number of data bytes emitted, and decoding the
\* bytes returns the same owner, class, TTL and data with the read position
\* at the end of the record.
C16_RecordRoundTrip ==
    call_fn = "encode_to_buf" =>
        /\ WrittenDataLen(call_arg.rec, call_ret.bytes) = Len(call_ret.bytes) - RecordHead(call_arg.rec)
        /\ call_ret.decoded.ok
        /\ SameRecord(call_ret.decoded.val, call_arg.rec)
        /\ call_ret.decoded.pos = BufLast(call_ret.bytes)

\* ------------------------------------------------------------------ claims on the message decoder

\* The values of the items chosen that are neither of unknown type nor in error.
RECURSIVE ItemsKept(_, _, _)
ItemsKept(items, chosen, i) ==
    IF i > Len(chosen) THEN <<>>
    ELSE (IF items[chosen[i]].is = "item" THEN <<items[chosen[i]].val>> ELSE <<>>)
         \o ItemsKept(items, chosen, i + 1)

\* The first item in error of a section, 0 when it has none.
FirstError(items, chosen) ==
    IF \E i \in DOMAIN chosen : items[chosen[i]].is = "error"
    THEN CHOOSE i \in DOMAIN chosen :
            /\ items[chosen[i]].is = "error"
            /\ \A j \in 1..(i - 1) : items[chosen[j]].is # "error"
    ELSE 0

\* The sections of the message sent, in order, with the tag of their errors.
SentSections ==
    << [tag |-> "QuestionErr", items |-> QuestionItems, chosen |-> call_arg.questions],
       [tag |-> "AnswerErr", items |-> RecordItems, chosen |-> call_arg.answers],
       [tag |-> "AuthorityErr", items |-> RecordItems, chosen |-> call_arg.authorities],
       [tag |-> "AdditionalErr", items |-> RecordItems, chosen |-> call_arg.additionals] >>

SectionFails(k) == FirstError(SentSections[k].items, SentSections[k].chosen) # 0

\* The decoder returned the error of the first item in error of section k.
AbortsAt(k) ==
    LET sec == SentSections[k]
        i == FirstError(sec.items, sec.chosen)
    IN  /\ ~call_ret.ok /\ ~call_ret.panic
        /\ call_ret.err = [section |-> sec.tag, index |-> i - 1, err |-> sec.items[sec.chosen[i]].err]

\* The decoder returned the items of the four sections without those of
\* unknown type, having read the whole message.
DecodesAll ==
    /\ call_ret.ok
    /\ call_ret.val.questions = ItemsKept(QuestionItems, call_arg.questions, 1)
    /\ call_ret.val.answers = ItemsKept(RecordItems, call_arg.answers, 1)
    /\ call_ret.val.authorities = ItemsKept(RecordItems, call_arg.authorities, 1)
    /\ call_ret.val.additionals = ItemsKept(RecordItems, call_arg.additionals, 1)
    /\ call_ret.pos = BufLast(call_arg.bytes)

\* C19: decoding a message skips every question and record of unknown type
\* number, reading exactly the bytes of that item, so that the items after
\* it are decoded from their own offsets; every other error of an item
\* ends the decoding with that error, tagged with the section and the index
\* of the item.
C19_UnknownSkipped ==
    call_fn = "decode_from_bytes" =>
        IF \E k \in 1..4 : SectionFails(k)
        THEN AbortsAt(CHOOSE k \in 1..4 : SectionFails(k) /\ \A j \in 1..(k - 1) : ~SectionFails(j))
        ELSE DecodesAll

\* A message decoded with an item behind a question and behind a record of
\* unknown type.
C19_Witness ==
    /\ call_fn = "decode_from_bytes"
    /\ call_ret.ok
    /\ Len(call_arg.questions) = 2 /\ QuestionItems[call_arg.questions[1]].is = "unknown"
    /\ Len(call_ret.val.questions) = 1
    /\ Len(call_arg.answers) = 2 /\ RecordItems[call_arg.answers[1]].is = "unknown"
    /\ Len(call_ret.val.answers) = 1
    /\ Len(call_ret.val.additionals) = 1

\* ------------------------------------------------------------------ claims on the zone loader

ZonesLoaded == call_fn = "parse_zone_files" /\ call_ret.ok

\* The sub-zone holds only NS and A records, at least one NS record, and
\* all its NS records at its top node.
SubZoneShape(sz) ==
    /\ \A i \in DOMAIN sz.records : sz.records[i].record_type \in {"NS", "A"}
    /\ \E i \in DOMAIN sz.records : sz.records[i].record_type = "NS"
    /\ \A i \in DOMAIN sz.records : sz.records[i].record_type = "NS" => sz.records[i].node = sz.zone

\* The A record is the address of the target of an NS record of the zone.
IsGlueOf(a_record, sz) ==
    \E j \in DOMAIN sz.records :
        sz.records[j].record_type = "NS" /\ sz.records[j].data = a_record.node

\* C20: in every ManagedZone the loader returns each sub-zone holds only NS
\* and A records, at least one NS record, all of them at its top node, and
\* every A record of a sub-zone is the address of the target of an NS record
\* of that same sub-zone.
C20_SubZonesValid ==
    ZonesLoaded =>
        \A k \in DOMAIN call_ret.val.sub_zones :
            LET sz == call_ret.val.sub_zones[k] IN
            /\ SubZoneShape(sz)
            /\ \A i \in DOMAIN sz.records : sz.records[i].record_type = "A" => IsGlueOf(sz.records[i], sz)

\* ------------------------------------------------------------------ claims on Name::is_in_zone

\* The labels of a name, the root having none: the pieces between its dots.
RECURSIVE LabelsOf(_, _, _)
LabelsOf(name, i, cur) ==
    IF i > Len(name) THEN <<>>
    ELSE IF name[i] = "." THEN (IF cur = <<>> THEN <<>> ELSE <<cur>>) \o LabelsOf(name, i + 1, <<>>)
    ELSE LabelsOf(name, i + 1, Append(cur, name[i]))

\* The first sequence ends with the second.
IsSuffix(zl, nl) ==
    /\ Len(zl) <= Len(nl)
    /\ \A i \in 1..Len(zl) : zl[i] = nl[Len(nl) - Len(zl) + i]

InZoneCalled == call_fn = "is_in_zone"

\* C23: n.is_in_zone(z) is true exactly when the labels of z are a suffix of
\* the labels of n; so every name is in the root zone and in its own zone,
\* and ab. is not in b.
C23_IsInZone ==
    InZoneCalled =>
        (call_ret <=> IsSuffix(LabelsOf(call_arg.zone, 1, <<>>), LabelsOf(call_arg.name, 1, <<>>)))


\* ------------------------------------------------------------------ claims on the candidates of a lookup

\* A lookup is about to query a candidate for which no address is known.
QueriesWithoutAddress(f) == f.pc = "query" /\ NsAddrs(f.cur) = <<>>

\* C25: no upstream query is attempted through a candidate nameserver for
\* which no address is known: a candidate whose sub-lookup yields no address,
\* also when it ends successfully with no_domain or without an A record of the
\* target, is skipped with an error remembered and the next one is tried.
C25_NoQueryWithoutAddress ==
    \A i \in DOMAIN lk : ~QueriesWithoutAddress(lk[i])

\* ------------------------------------------------------------------ claims on the classification of responses

Classified == call_fn = "perform_request"

\* A section holds a record of the given type owned by the node.
Holds(section, kind, node) ==
    \E i \in DOMAIN section : section[i].record_type = kind /\ section[i].node = node

\* An NS record the delegation step accepts for the node searched and the
\* zone of the nameserver queried, as extract_next_nss_for_subzone tests it:
\* the owner ends the node, is longer than the zone, and a target that ends
\* with the owner has an address in the additional section.
AcceptableNs(rec, resp, node, zone) ==
    /\ rec.record_type = "NS"
    /\ EndsWith(node, rec.node)
    /\ Len(rec.node) > Len(zone)
    /\ EndsWith(rec.data, rec.node) => Holds(resp.additionals, "A", rec.data)

\* The kind of NsResponse, or the error, the decision in order gives.
DecisionInOrder(resp, node, kind, zone) ==
    IF ~(resp.resp_code = "NoError" \/ (resp.resp_code = "NxDomain" /\ resp.auth_answer))
    THEN "UnexpectedRespCode"
    ELSE IF resp.resp_code = "NxDomain" THEN "NoDomain"
    ELSE IF Holds(resp.answers, kind, node) THEN "Answer"
    ELSE IF Holds(resp.answers, "CNAME", node) THEN "Alias"
    ELSE IF \E i \in DOMAIN resp.authorities : AcceptableNs(resp.authorities[i], resp, node, zone)
    THEN "Delegation"
    ELSE "UnexpectedEmptyResp"

\* What perform_request returned: the kind of NsResponse, or the error.
OutcomeOf(ret) == IF ret.kind = "Err" THEN ret.err ELSE ret.kind

\* C29: the classification of a reply is a first-match decision in this
\* order: an RCODE other than NoError or NxDomain with AA (NxDomain without AA
\* included) gives UnexpectedRespCode; NxDomain with AA gives NoDomain; answers
\* holding records of the searched type and node give Answer; answers holding
\* a CNAME at the searched node give Alias; authorities yielding at least one
\* acceptable NS give Delegation; anything else gives UnexpectedEmptyResp.
C29_ClassificationOrder ==
    Classified =>
        OutcomeOf(call_ret) = DecisionInOrder(call_arg.resp, call_arg.searched_node,
                                              call_arg.searched_type, call_arg.zone)

\* A response holding records of the searched type, a CNAME at the searched
\* node and an acceptable NS was classified as an Answer.
C29_Witness ==
    /\ Classified
    /\ call_arg.searched_type = "A"
    /\ Holds(call_arg.resp.answers, "A", call_arg.searched_node)
    /\ Holds(call_arg.resp.answers, "CNAME", call_arg.searched_node)
    /\ \E i \in DOMAIN call_arg.resp.authorities :
          AcceptableNs(call_arg.resp.authorities[i], call_arg.resp, call_arg.searched_node, call_arg.zone)
    /\ call_ret.kind = "Answer"

\* C27: every candidate of a Delegation is an NS record whose zone contains
\* the searched node (the labels of the zone are a suffix of the labels of
\* the node) and is strictly closer to the node than the zone of the
\* nameserver just queried, and no candidate whose target lies inside its own
\* zone is kept without a glue address.
C27_DelegationCandidates ==
    (Classified /\ call_ret.kind = "Delegation") =>
        \A i \in DOMAIN call_ret.next_nss :
            /\ call_ret.next_nss[i].ns_record.record_type = "NS"
            /\ IsSuffix(LabelsOf(NsZone(call_ret.next_nss[i]), 1, <<>>),
                        LabelsOf(call_arg.searched_node, 1, <<>>))
            /\ Len(LabelsOf(NsZone(call_ret.next_nss[i]), 1, <<>>)) > Len(LabelsOf(call_arg.zone, 1, <<>>))
            /\ IsSuffix(LabelsOf(NsZone(call_ret.next_nss[i]), 1, <<>>),
                        LabelsOf(NsNode(call_ret.next_nss[i]), 1, <<>>))
                  => NsAddrs(call_ret.next_nss[i]) # <<>>

\* ------------------------------------------------------------------ claims on the sub-lookups

\* No zone appears twice in a list of zones.
NoZoneTwice(zones) == \A i, j \in DOMAIN zones : zones[i] = zones[j] => i = j

\* The next candidate of a lookup about to take one has no address.
HeadWithoutAddress(f) ==
    /\ f.result = NoResult /\ f.pc = "cand"
    /\ f.queue # <<>>
    /\ NsAddrs(Head(f.queue)) = <<>>

\* The zones of the NS records upstream nameservers send.
DelegatedZones ==
    UNION { { DelegatingResponses[i].authorities[j].node : j \in DOMAIN DelegatingResponses[i].authorities } :
            i \in DOMAIN DelegatingResponses }

\* C30: a candidate without an address whose zone is in the list of zones
\* passed down by the enclosing lookups fails, no sub-lookup being started and
\* the error being remembered; otherwise the sub-lookup receives that list
\* plus the zone of the candidate. Hence along a chain of nested sub-lookups
\* no zone appears twice and the depth is at most the number of distinct zones.
C30_ZonesLoopDetected ==
    /\ [](/\ \A i \in DOMAIN lk :
                /\ NoZoneTwice(lk[i].previous_zones)
                /\ Len(lk[i].previous_zones) = i - 1
                /\ i > 1 => lk[i].previous_zones = Append(lk[i - 1].previous_zones, NsZone(lk[i - 1].cur))
          /\ Len(lk) <= 1 + Cardinality(DelegatedZones))
    /\ [][(lk # <<>> /\ lk' # lk /\ HeadWithoutAddress(Top)) =>
            IF \E i \in DOMAIN Top.previous_zones : Top.previous_zones[i] = NsZone(Head(Top.queue))
            THEN /\ Len(lk') = Len(lk)
                 /\ lk'[Len(lk)].error = get_or_insert(Top.error, "SubLookupErr")
                 /\ lk'[Len(lk)].pc = "cand"
                 /\ lk'[Len(lk)].queue = Tail(Top.queue)
            ELSE /\ Len(lk') = Len(lk) + 1
                 /\ lk'[Len(lk')].previous_zones = Append(Top.previous_zones, NsZone(Head(Top.queue)))
                 /\ lk'[Len(lk')].searched_node = NsNode(Head(Top.queue))]_vars

\* A sub-lookup two levels down met a candidate without an address whose zone
\* was passed down to it, and remembered the error.
C30_Witness ==
    /\ Len(lk) = 3
    /\ Top.error = Some("SubLookupErr")
    /\ Top.pc = "cand"
    /\ Top.previous_zones = <<NameA, NameN>>
    /\ ~Top.queried

\* ------------------------------------------------------------------ claims on the zone loop

\* The lookup at level i follows a delegation in this step.
FollowsDelegation(i) ==
    /\ i \in DOMAIN lk /\ i \in DOMAIN lk'
    /\ lk'[i].delegs = lk[i].delegs + 1

\* C28: each delegation a lookup follows moves to zones strictly longer than
\* the zone of the nameserver just queried and no longer than the searched
\* node, so that the delegations followed for one searched node are at most
\* as many as the length of the node.
C28_ZoneLoopBounded ==
    /\ [][\A i \in 1..Len(lk) :
            FollowsDelegation(i) =>
                /\ lk'[i].queue # <<>>
                /\ \A j \in DOMAIN lk'[i].queue :
                      /\ Len(NsZone(lk'[i].queue[j])) > Len(NsZone(lk[i].cur))
                      /\ Len(NsZone(lk'[i].queue[j])) <= Len(lk[i].searched_node)]_vars
    /\ [](/\ \A i \in DOMAIN lk : lk[i].node_delegs <= Len(lk[i].searched_node)
          /\ l_result # NoResult => l_result.node_delegs <= Len(l_result.searched_node))

\* A lookup followed two delegations for one searched node, from the root
\* zone to a. and from a. to b.a.
C28_Witness ==
    /\ lk # <<>>
    /\ Top.node_delegs = 2
    /\ Top.searched_node = NameBA
    /\ Top.pc = "cand"
    /\ \A j \in DOMAIN Top.queue : NsZone(Top.queue[j]) = NameBA

\* ------------------------------------------------------------------ claims on the bits buffer

\* Bit i of a sequence of bytes, bit 0 being the most significant bit of the
\* first byte; bits beyond the bytes are 0.
BitAt(bytes, i) ==
    IF i \div 8 + 1 > Len(bytes) THEN 0
    ELSE (bytes[i \div 8 + 1] \div Pow2(7 - (i % 8))) % 2

BitsWritten == call_fn = "write_bits"

\* C24: after write_bits(v, n) at the write position p <= last, with
\* 1 <= n <= 8, reading n bits from the read position p returns v mod 2^n,
\* every bit outside [p, p+n) keeps its value, and last is the greater of the
\* last before and p+n.
C24_WriteThenRead ==
    BitsWritten =>
        /\ call_ret.read = Some(call_arg.bits % OneShl(call_arg.n))
        /\ \A i \in 0..(8 * Len(call_ret.buffer.buf) - 1) :
              (i < call_arg.buffer.w_pos \/ i >= call_arg.buffer.w_pos + call_arg.n) =>
                  BitAt(call_ret.buffer.buf, i) = BitAt(call_arg.buffer.buf, i)
        /\ Len(call_ret.buffer.buf) >= Len(call_arg.buffer.buf)
        /\ call_ret.buffer.last =
              (IF call_arg.buffer.last > call_arg.buffer.w_pos + call_arg.n
               THEN call_arg.buffer.last ELSE call_arg.buffer.w_pos + call_arg.n)

\* Bits were written across two bytes, over bits that were set, in the
\* middle of a buffer whose last position is not at the end of a byte.
C24_Witness ==
    /\ BitsWritten
    /\ (call_arg.buffer.w_pos % 8) + call_arg.n > 8
    /\ call_arg.buffer.w_pos + call_arg.n < call_arg.buffer.last
    /\ call_arg.buffer.last % 8 # 0
    /\ call_arg.bits = 0
    /\ \E i \in call_arg.buffer.w_pos..(call_arg.buffer.w_pos + call_arg.n - 1) :
          BitAt(call_arg.buffer.buf, i) = 1

\* ------------------------------------------------------------------ claims on the messages encoded

\* The counts of the header of a message are the lengths of its sections.
CountsMatchSections(msg) ==
    /\ msg.header.questions_count = Len(msg.questions)
    /\ msg.header.answers_count = Len(msg.answers)
    /\ msg.header.authorities_count = Len(msg.authorities)
    /\ msg.header.additionals_count = Len(msg.additionals)

\* The handler handed the message to reply, which encodes it.
HandedToEncoder(d) == d.do = "reply" => CountsMatchSections(d.msg)

\* C26: every message handed to the encoder has each section count of its
\* header equal to the length of the section, so that the encoder never
\* indexes past the end of a section.
C26_CountsMatchSections ==
    h_pc = "done" =>
        /\ HandedToEncoder(handler_decision(h_read, h_lookup))
        /\ ~h_panicked

\* ------------------------------------------------------------------ claims on the tokenizer

\* The part of a line before its comment.
RECURSIVE BeforeComment(_)
BeforeComment(chars) ==
    IF chars = <<>> \/ Head(chars) = ";" THEN <<>> ELSE <<Head(chars)>> \o BeforeComment(Tail(chars))

\* The '(' less the ')' among the characters.
RECURSIVE OpenLessClose(_)
OpenLessClose(chars) ==
    IF chars = <<>> THEN 0
    ELSE (IF Head(chars) = "(" THEN 1 ELSE IF Head(chars) = ")" THEN -1 ELSE 0) + OpenLessClose(Tail(chars))

RECURSIVE OpenInLines(_, _)
OpenInLines(file, n) ==
    IF n = 0 THEN 0 ELSE OpenLessClose(BeforeComment(file[n])) + OpenInLines(file, n - 1)

\* The '(' not yet closed in what the tokenizer t has consumed of the file:
\* the lines read before the current one and the current one up to the position.
OpenAt(file, t) ==
    IF t.line = 0 THEN 0
    ELSE OpenInLines(file, t.line - 1)
         + OpenLessClose(BeforeComment(Take(file[t.line], t.pos)))

TokenAsked == call_fn = "next"

\* C22: the tokenizer never emits NewLine between an opening '(' and its
\* closing ')'; a '(' met while a multi-line context is open is an error, as
\* is a ')' met while none is open, neither being consumed; and at the end of
\* the file with a context still open MlMissingClose is returned, not End.
C22_MultilineContext ==
    TokenAsked =>
        /\ OpenAt(call_arg.file, call_ret.t) \in {0, 1}
        /\ (call_ret.ok /\ call_ret.tok.kind = "NewLine") => OpenAt(call_arg.file, call_ret.t) = 0
        /\ (call_ret.ok /\ call_ret.tok.kind = "End") =>
              /\ call_ret.t.lines = <<>>
              /\ OpenAt(call_arg.file, call_ret.t) = 0
        /\ ~call_ret.ok =>
              /\ call_ret.err \in {"MlUnexpectedOpen", "MlUnexpectedClose", "MlMissingClose"}
              /\ call_ret.err = "MlUnexpectedOpen" =>
                    Cur(call_ret.t) = "(" /\ OpenAt(call_arg.file, call_ret.t) = 1
              /\ call_ret.err = "MlUnexpectedClose" =>
                    Cur(call_ret.t) = ")" /\ OpenAt(call_arg.file, call_ret.t) = 0
              /\ call_ret.err = "MlMissingClose" =>
                    call_ret.t.lines = <<>> /\ OpenAt(call_arg.file, call_ret.t) = 1

\* A token was read on the line after an opening '(' without a NewLine
\* before it, the context being still open.
C22_Witness ==
    /\ TokenAsked
    /\ call_ret.ok /\ call_ret.tok.kind = "String"
    /\ call_ret.t.line = 2
    /\ call_ret.t.multiline
    /\ OpenLessClose(BeforeComment(call_arg.file[1])) = 1
    /\ call_arg.file[1][1] = "a"

\* ------------------------------------------------------------------ claims on the authoritative zone file

\* The file parsed and its result.
AuthFileParsed == call_fn = "parse_auth_zone_file"
AuthFile == call_arg.file[1]

\* The first entry is a SOA record owned by the top node of the zone.
StartsWithSoa(file, zone) ==
    /\ file # <<>>
    /\ file[1].entry = "record"
    /\ file[1].record_type = "SOA"
    /\ file[1].node \in {None, Some(zone)}

\* The TTLs written in the record entries of a file and of the files it includes.
RECURSIVE ExplicitTtls(_, _)
ExplicitTtls(entries, from) ==
    UNION { IF entries[i].entry = "record" THEN { entries[i].ttl[j] : j \in DOMAIN entries[i].ttl }
            ELSE IF entries[i].entry = "include" /\ entries[i].file # None
            THEN ExplicitTtls(entries[i].file[1], 1)
            ELSE {} : i \in from..Len(entries) }

\* The number of the record entries of a file and of the files it includes.
RECURSIVE RecordEntries(_, _)
RecordEntries(entries, i) ==
    IF i > Len(entries) THEN 0
    ELSE RecordEntries(entries, i + 1)
         + (IF entries[i].entry = "record" THEN 1
            ELSE IF entries[i].entry = "include" /\ entries[i].file # None
            THEN RecordEntries(entries[i].file[1], 1) ELSE 0)

\* Nothing but a TTL can make the entries after the SOA fail: the records are
\* of the class IN and of the type A at the current origin, the files
\* included can be read.
RECURSIVE OnlyTtlsCanFail(_, _)
OnlyTtlsCanFail(entries, from) ==
    \A i \in from..Len(entries) :
        IF entries[i].entry = "record"
        THEN /\ entries[i].node = None
             /\ entries[i].class \in {None, Some("IN")}
             /\ entries[i].record_type = "A"
        ELSE /\ entries[i].entry = "include"
             /\ entries[i].file # None
             /\ OnlyTtlsCanFail(entries[i].file[1], 1)

\* The first entry is a SOA record of the zone, of the class IN.
GoodSoa(file, zone) ==
    /\ StartsWithSoa(file, zone)
    /\ file[1].class = Some("IN")

\* C21: an authoritative zone file is accepted only if its first entry is a
\* SOA record owned by the top node of the zone; every record accepted, in
\* the file or in a file it includes, with a TTL of its own or the one
\* carried over, has a TTL of at least the minimum of that SOA; and a file
\* in which nothing else can fail and a TTL below the minimum is written,
\* after the SOA or in the SOA itself, fails with TtlTooLow.
C21_MinimumTtl ==
    AuthFileParsed =>
        /\ call_ret.ok =>
              /\ StartsWithSoa(AuthFile, call_arg.zone)
              /\ \A i \in DOMAIN call_ret.val.records :
                    call_ret.val.records[i].ttl >= SoaMinimum(AuthFile[1].data)
              /\ \A t \in ExplicitTtls(AuthFile, 1) : t >= SoaMinimum(AuthFile[1].data)
              /\ Len(call_ret.val.records) = RecordEntries(AuthFile, 1)
        /\ ( /\ GoodSoa(AuthFile, call_arg.zone)
             /\ OnlyTtlsCanFail(AuthFile, 2)
             /\ \E t \in ExplicitTtls(AuthFile, 1) : t < SoaMinimum(AuthFile[1].data) )
           => call_ret = Err("TtlTooLow")

\* A file is accepted whose included file has a record without a TTL, after
\* a record of the file that has one.
C21_Witness ==
    /\ AuthFileParsed
    /\ call_ret.ok
    /\ Len(AuthFile) = 3
    /\ SoaMinimum(AuthFile[1].data) = 2
    /\ AuthFile[2].entry = "record" /\ AuthFile[2].ttl = Some(2)
    /\ AuthFile[3].entry = "include"
    /\ AuthFile[3].file # None
    /\ AuthFile[3].file[1] # <<>>
    /\ AuthFile[3].file[1][1].entry = "record"
    /\ AuthFile[3].file[1][1].ttl = None
    /\ Len(call_ret.val.records) >= 3

\* ------------------------------------------------------------------ claims on the retries

RetriesCalled == call_fn = "send_query_with_retries"

\* An attempt got a reply: the nameserver has an address to send to and the
\* network did not fail.
Replied(a) == call_arg.addrs # <<>> /\ a.net.io

\* The reply of an attempt decodes and carries the id of the request.
GoodAttempt(a) == Replied(a) /\ a.net.decodes /\ a.net.id = a.request_id

\* The reply of an attempt decodes and carries another id.
OtherIdAttempt(a) == Replied(a) /\ a.net.decodes /\ a.net.id # a.request_id

\* send_query_with_retries returned an error.
ReturnedErr ==
    call_ret.returned # None /\ ~call_ret.returned[1].ok /\ call_ret.returned[1] # Panicked

\* What was returned so far, against the attempts made.
RetriesKept ==
    RetriesCalled =>
        /\ Len(call_ret.attempts) <= call_arg.retries
        /\ \A k \in DOMAIN call_ret.attempts :
              /\ GoodAttempt(call_ret.attempts[k]) =>
                    /\ k = Len(call_ret.attempts)
                    /\ call_ret.returned = Some(Ok([id |-> call_ret.attempts[k].request_id]))
              /\ OtherIdAttempt(call_ret.attempts[k]) /\ k = Len(call_ret.attempts) =>
                    /\ call_ret.i = k
                    /\ call_ret.err = Some("MalformedResp")
        /\ ReturnedErr =>
              /\ Len(call_ret.attempts) = call_arg.retries
              /\ \A k \in DOMAIN call_ret.attempts : ~GoodAttempt(call_ret.attempts[k])
              /\ call_ret.returned[1].err \in {"IO", "MalformedResp"}
              /\ call_ret.returned[1].err = call_ret.err[1]
        /\ call_ret.returned # None /\ call_ret.returned[1].ok =>
              GoodAttempt(call_ret.attempts[Len(call_ret.attempts)])
        /\ call_ret.returned = Some(Panicked) => call_arg.addrs = <<>>

\* Once max_upd_retries attempts have failed, the error of the last is returned.
ErrReturned ==
    RetriesCalled /\ call_ret.returned = None /\ call_ret.i = call_arg.retries
        => call_ret' = [call_ret EXCEPT !.returned = Some(Err(call_ret.err[1]))]

\* C31: for one nameserver at most max_upd_retries attempts are made; the
\* attempts stop at the first one whose reply decodes and carries the id of
\* its request, which is what is returned; a reply with another id is a
\* failed attempt whose error is MalformedResp; and an error is returned
\* exactly when max_upd_retries attempts returned an error, the error being
\* the last one. (An attempt panics only for a nameserver without address.)
C31_Retries == []RetriesKept /\ [][ErrReturned]_vars

\* Every attempt failed, the last with a reply of another id, and the error
\* was returned.
C31_Witness ==
    /\ RetriesCalled
    /\ call_arg.retries = 3
    /\ Len(call_ret.attempts) = 3
    /\ call_ret.attempts[1].net.io = FALSE
    /\ OtherIdAttempt(call_ret.attempts[3])
    /\ call_ret.returned = Some(Err("MalformedResp"))

\* ------------------------------------------------------------------ claims on the probe for nameservers

NsProbed == call_fn = "search_nss_in_cache"

\* The searched name and its parents, the root last: the name from each of
\* its label boundaries on.
ParentsOf(name) ==
    { SubSeq(name, i + 1, Len(name)) : i \in { j \in 1..(Len(name) - 1) : name[j] = "." } }
    \cup {name, NameRoot}

\* The cache holds NS records of the zone that have not expired.
HoldsNs(d, t, zone) == <<zone, "NS">> \in DOMAIN d /\ d[<<zone, "NS">>].exp > t

\* The levels of the searched name that have NS records in the cache.
LevelsWithNs == { z \in ParentsOf(call_arg.searched_node) : HoldsNs(call_arg.data, call_arg.now, z) }

\* C32: the probe visits the searched name and each of its parents, the root
\* '.' included; the candidates are the cached NS records of the first, that
\* is the longest, level that has some, and the root nameservers of the code
\* are the candidates only when no level, the root included, has any.
C32_RootProbed ==
    NsProbed =>
        /\ { call_ret.domains[i] : i \in DOMAIN call_ret.domains } = ParentsOf(call_arg.searched_node)
        /\ \A i \in 1..(Len(call_ret.domains) - 1) :
              Len(call_ret.domains[i]) > Len(call_ret.domains[i + 1])
        /\ LevelsWithNs = {} <=> call_ret.next_nss = root_zone_nameservers
        /\ \A z \in LevelsWithNs :
              (\A y \in LevelsWithNs : Len(y) <= Len(z)) =>
                 /\ call_ret.next_nss # <<>>
                 /\ \A i \in DOMAIN call_ret.next_nss :
                       /\ NsZone(call_ret.next_nss[i]) = z
                       /\ NsNode(call_ret.next_nss[i]) = NameN

\* ------------------------------------------------------------------ claims on the candidates tried

CandidatesCalled == call_fn = "query_nameservers_iteratively"

\* A candidate set with the nameservers that have an address first, in
\* otherwise unchanged order, cut at max_ns_queried.
HasAddress(ns) == ns.a_records # <<>>
HasNoAddress(ns) == ns.a_records = <<>>
ToTry(next_nss) ==
    Take(SelectSeq(next_nss, HasAddress) \o SelectSeq(next_nss, HasNoAddress), max_ns_queried)

\* C33: the candidates of a set are tried in the order of the set with those
\* that have an address first, at most max_ns_queried of them; an error is
\* returned only when all of these were tried and each failed, and it is the
\* error of the first of them.
C33_CandidatesTried ==
    CandidatesCalled =>
        /\ Len(call_ret.tried) <= max_ns_queried
        /\ Len(call_ret.tried) <= Len(ToTry(call_arg.next_nss))
        /\ \A i \in DOMAIN call_ret.tried :
              call_ret.tried[i].ns = ToTry(call_arg.next_nss)[i]
        /\ call_ret.f.pc = "done" /\ call_ret.f.result.kind = "Err" =>
              /\ Len(call_ret.tried) = Len(ToTry(call_arg.next_nss))
              /\ \A i \in DOMAIN call_ret.tried : call_ret.tried[i].err # None
              /\ call_ret.f.result.err = call_ret.tried[1].err[1]
        /\ \A i \in 1..(Len(call_ret.tried) - 1) : call_ret.tried[i].err # None

\* Three of four candidates were tried, the one with an address first though
\* it was the last of the set, and the error of the first is returned, the
\* others having failed otherwise.
C33_Witness ==
    /\ CandidatesCalled
    /\ Len(call_arg.next_nss) = 4
    /\ HasNoAddress(call_arg.next_nss[1])
    /\ HasAddress(call_arg.next_nss[4])
    /\ Len(call_ret.tried) = 3
    /\ call_ret.tried[1].ns = call_arg.next_nss[4]
    /\ call_ret.tried[1].err = Some("MalformedResp")
    /\ call_ret.tried[2].err = Some("SubLookupErr")
    /\ call_ret.tried[3].err \notin {None, Some("MalformedResp")}
    /\ call_ret.f.pc = "done"
    /\ call_ret.f.result = ErrResponse("MalformedResp")

\* ------------------------------------------------------------------ claims on the entries of the record cache

\* TRUE when the records of a list have one type and one ttl.
Uniform(records) ==
    \A i \in DOMAIN records :
        /\ records[i].record_type = records[1].record_type
        /\ records[i].ttl = records[1].ttl

\* TRUE when ttl is the least ttl of the records.
LeastTtl(ttl, records) ==
    /\ \E i \in DOMAIN records : records[i].ttl = ttl
    /\ \A i \in DOMAIN records : ttl <= records[i].ttl

\* The key of the last write.
WrittenKey == <<call_arg.written[1].node, call_arg.written[1].record_type>>

\* C34: every entry of the record cache holds a non-empty list of records of
\* one type and one ttl; after a write, and until the entry is removed or
\* written again, the ttl of the entry written is the least ttl of the records
\* passed to the write; and no read of the cache fails one of its assertions.
C34_UniformEntries ==
    /\ \A k \in DOMAIN data : data[k].val # <<>> /\ Uniform(data[k].val)
    /\ call_fn \in {"save_records_in_cache", "save_nss_in_cache"} /\ WrittenKey \in DOMAIN data =>
          /\ Len(data[WrittenKey].val) = Len(call_arg.written)
          /\ LeastTtl(data[WrittenKey].val[1].ttl, call_arg.written)
    /\ call_fn = "search_records_in_cache" => ~call_ret.panic

\* C34 witness: a key is read at a later tick than the clock reading before
\* it, right after a write of two records with different ttls under that key,
\* and the read returns the two records.
C34_Witness ==
    /\ call_fn = "search_records_in_cache"
    /\ Len(call_ret.records) = 2
    /\ call_arg.after_mixed
    /\ call_arg.before_get < call_arg.t

\* ------------------------------------------------------------------ claims on the write-back of a cached alias

\* The key of the second cache search of the running lookup.
CnameKey == <<Top.searched_node, "CNAME">>

\* TRUE of a step in which the running lookup finds a CNAME in the cache and
\* handle_cname saves it again.
CachedCnameSavedBack ==
    /\ Running /\ Top.pc = "cnames"
    /\ lk' # lk
    /\ CnameKey \in DOMAIN data
    /\ CnameKey \in DOMAIN data'

\* C35: when a CNAME read from the cache is saved again while it is followed,
\* the expiry of its entry after the save is not later than the expiry the
\* entry had when it was read.
C35_LifeNotLengthened ==
    [][CachedCnameSavedBack => data'[CnameKey].exp <= data[CnameKey].exp]_vars

\* ------------------------------------------------------------------ claims on the atomicity of the cache

\* The entry writer i stores: the value it passed, and the expiry of the
\* time it held the lock plus the ttl it passed.
WriteOf(i) == SetEntry(call_ret.locked_at[i], call_arg.ttl[i], WrittenVals[i])

\* TRUE when the slot is the whole entry of a write that has stored its expiry.
WholeEntry(slot) ==
    \E i \in Writers : call_ret.locked_at[i] >= 0 /\ slot = WriteOf(i)

\* C36: with two lookups writing the same key and a third reading it, after
\* both writes the entry is the value and expiry of the write that took the
\* lock last, and every read returns no entry or the whole entry of one write.
C36_AtomicWrites ==
    SetRunning =>
        /\ (\A i \in Writers : call_ret.pc[i] = "done") =>
              call_ret.slot = WriteOf(call_ret.order[Len(call_ret.order)])
        /\ \A n \in DOMAIN call_ret.seen :
              call_ret.seen[n] = VacantSlot \/ WholeEntry(call_ret.seen[n])

\* C36 witness: both writes are done, with different expiries, the reader
\* has read the entry of the first write and then the entry of the second.
C36_Witness ==
    /\ SetRunning
    /\ \A i \in Writers : call_ret.pc[i] = "done"
    /\ WriteOf(1).exp # WriteOf(2).exp
    /\ Len(call_ret.seen) = 2
    /\ call_ret.seen[1] = WriteOf(call_ret.order[1])
    /\ call_ret.seen[2] = WriteOf(call_ret.order[2])

\* ------------------------------------------------------------------ claims on pointers beyond the end of the message

\* TRUE when the buffer starts with a compression pointer whose offset, in
\* bytes, is beyond the end of the buffer.
PointsBeyondEnd(buf) ==
    /\ Len(buf) >= 2
    /\ buf[1] \div 64 = 3
    /\ (buf[1] * 256 + buf[2]) % 16384 > Len(buf)

\* C37: decoding a name whose compression pointer holds an offset beyond the
\* end of the message does not panic, and what it returns is an error.
C37_BeyondEndIsError ==
    call_fn = "from_bytes" /\ PointsBeyondEnd(call_arg.buf) =>
        /\ call_ret.pc # "panicked"
        /\ call_ret.pc = "done" => ~call_ret.res.ok

\* ------------------------------------------------------------------ claims on the stop flag in the server loops

\* C38: no datagram or connection a server loop receives once the stop flag
\* is set is handed to its pool; the first one received is discarded, and
\* the loop drops its pool and returns.
C38_StopEndsLoop ==
    call_fn = "serve" =>
        /\ ~call_ret.handed_after_stop
        /\ call_ret.after_stop => s_pc[call_arg.server] \in {"check", "drop", "notify", "exited"}
        /\ s_pc[call_arg.server] \in {"notify", "exited"} => call_ret.discarded = 1

\* The first two parts of C38 alone: no message received with the flag set
\* reaches the pool, and exactly one is discarded.
StopDiscards ==
    call_fn = "serve" =>
        /\ ~call_ret.handed_after_stop
        /\ call_ret.after_stop => s_pc[call_arg.server] \in {"check", "drop", "notify", "exited", "panicked"}
        /\ call_ret.discarded <= 1

\* ------------------------------------------------------------------ claims on rdlength

\* C39: a record of type NS, CNAME, PTR, MX or SOA is accepted only when its
\* rdlength is the number of bytes its data decoder consumed; with any other
\* rdlength decoding fails with DataLenMismatch, and it never panics.
C39_RdLengthExact ==
    call_fn = "decode_from_buf" =>
        IF call_arg.data_len = call_arg.consumed
        THEN call_ret.ok
        ELSE ~call_ret.ok /\ call_ret.err = "DataLenMismatch"

\* ------------------------------------------------------------------ claims on the state around an include

\* The file parsed, the file included and the records of the result, the
\* SOA record being the last of them.
IncludeParsed == call_fn = "parse_included_file"
Including == call_arg.file[1]
Included == Including[4].file[1]
Parsed == call_ret.val.records

\* The state of the parent at the include: the origin of the directive
\* before it, the TTL of the record before that, the minimum of the SOA.
OriginBefore == Including[3].origin
TtlBefore == Including[2].ttl[1]
MinimumBefore == SoaMinimum(Including[1].data)

\* The origin the included file starts with.
OriginIncluded == IF Including[4].origin = None THEN OriginBefore ELSE Including[4].origin[1]

\* The record of the last entry of the file.
LastParsed == Parsed[Len(Parsed) - 1]

\* The file without its include.
WithoutInclude == <<Including[1], Including[2], Including[3], Including[5]>>

\* C40: the included file starts with the current TTL and the minimum TTL of
\* its parent (and the origin of the include); after it the parent has the
\* origin, the current TTL and the minimum TTL it had before, whatever the
\* included file holds: its next record is what it is without the include.
C40_IncludeKeepsParent ==
    IncludeParsed =>
        /\ call_ret.ok =>
              /\ LastParsed.node = OriginBefore
              /\ LastParsed.ttl = (IF Including[5].ttl = None THEN TtlBefore ELSE Including[5].ttl[1])
              /\ LastParsed.ttl >= MinimumBefore
              /\ parse_auth_zone_file([call_arg EXCEPT !.file = Some(WithoutInclude)]).ok
              /\ LastParsed = parse_auth_zone_file([call_arg EXCEPT !.file = Some(WithoutInclude)]).val.records[2]
              /\ (Included # <<>> /\ Included[1].entry = "record" /\ Included[1].node = None) =>
                    Parsed[2].node = OriginIncluded
              /\ (Included # <<>> /\ Included[1].entry = "record" /\ Included[1].ttl = None) =>
                    Parsed[2].ttl = TtlBefore
              /\ \A i \in DOMAIN Included :
                    (Included[i].entry = "record" /\ Included[i].ttl # None) =>
                        Included[i].ttl[1] >= MinimumBefore
        /\ (Including[5].ttl # None /\ Including[5].ttl[1] < MinimumBefore) => ~call_ret.ok

\* C40 witness: the included file changes its origin and then holds a record
\* with a TTL other than the current TTL of the parent; the file is
\* accepted, and its last record has no TTL of its own.
C40_Witness ==
    /\ IncludeParsed
    /\ call_ret.ok
    /\ Len(Included) = 2
    /\ Included[1].entry = "origin"
    /\ Included[2].entry = "record"
    /\ Included[2].ttl \notin {None, Some(TtlBefore)}
    /\ Including[5].ttl = None
    /\ OriginBefore # Included[1].origin

====
